---------------------------- MODULE Spec2Model ----------------------------
(***************************************************************************)
(* A model of the terminal-event pipeline of console_log_parser:           *)
(*   - the VT500 escape/control-sequence parser        (vtparser.py)       *)
(*   - the session detector layered on it              (terminalparser.py) *)
(*   - the asciinema frame pipeline                    (asciinema2html.py) *)
(*   - the hop aligner of two recordings               (twebber.py)        *)
(*   - the SGR span stack of the HTML writer, the line builder and the     *)
(*     renderer                                         (terminal2html.py) *)
(* Bytes are naturals 0..255, byte strings are sequences of bytes, Python  *)
(* None is the string "None".                                              *)
(***************************************************************************)
EXTENDS Integers, Sequences, FiniteSets, TLC

VARIABLES
    probe,      \* State.event applied to one (state, code) pair
    parser,     \* the VT500Parser / TermLogParser object
    reader,     \* the Asciinema2Html object
    twebber,    \* the locals of twebber.parse: both logs, the hops, the roles
    document,   \* the HtmlDocumentCreator object
    builder,    \* a LineBuilder object
    hist        \* history of what the handlers were called with

vars == <<probe, parser, reader, twebber, document, builder, hist>>

None == "None"

Max(S) == CHOOSE x \in S : \A y \in S : y <= x

Last(s) == s[Len(s)]

Front(s) == SubSeq(s, 1, Len(s) - 1)

\* A local variable of the code: body applied to the value of v, which is
\* computed before body is.
With(v, body(_)) == CHOOSE r \in {body(x) : x \in {v}} : TRUE

(***************************************************************************)
(* vtparser.py: States, Actions, State                                     *)
(***************************************************************************)
States ==
    { "ground", "escape", "escape_intermediate", "csi_entry", "csi_param",
      "csi_intermediate", "csi_ignore", "dcs_entry", "dcs_param",
      "dcs_intermediate", "dcs_passthrough", "dcs_ignore", "osc_string",
      "sos_pm_apc_string" }

Actions ==
    { "ignore", "print", "execute", "clear", "collect", "param",
      "esc_dispatch", "csi_dispatch", "hook", "put", "unhook", "osc_start",
      "osc_put", "osc_end" }

\* An event_map item whose key is a single code.
K(code, action, state_id) ==
    [single |-> TRUE, lo |-> code, hi |-> code, action |-> action, state |-> state_id]

\* An event_map item whose key is a (start, end) tuple.
R(lo, hi, action, state_id) ==
    [single |-> FALSE, lo |-> lo, hi |-> hi, action |-> action, state |-> state_id]

\* The items State.__init__ puts into every state's event_map, in dict order.
DefaultEventMapNoST ==
    << K(\H18, "execute", "ground"),
       K(\H1A, "execute", "ground"),
       K(\H1B, None, "escape"),
       R(\H80, \H8F, "execute", "ground"),
       R(\H91, \H97, "execute", "ground"),
       K(\H99, "execute", "ground"),
       K(\H9A, "execute", "ground"),
       K(\H98, None, "sos_pm_apc_string"),
       K(\H9E, None, "sos_pm_apc_string"),
       K(\H9F, None, "sos_pm_apc_string"),
       K(\H90, None, "dcs_entry"),
       K(\H9B, None, "csi_entry"),
       K(\H9D, None, "osc_string") >>

DefaultEventMap ==
    << K(\H18, "execute", "ground"),
       K(\H1A, "execute", "ground"),
       K(\H1B, None, "escape"),
       R(\H80, \H8F, "execute", "ground"),
       R(\H91, \H97, "execute", "ground"),
       K(\H99, "execute", "ground"),
       K(\H9A, "execute", "ground"),
       K(\H9C, None, "ground"),
       K(\H98, None, "sos_pm_apc_string"),
       K(\H9E, None, "sos_pm_apc_string"),
       K(\H9F, None, "sos_pm_apc_string"),
       K(\H90, None, "dcs_entry"),
       K(\H9B, None, "csi_entry"),
       K(\H9D, None, "osc_string") >>

\* The three C0 ranges every state but osc_string maps to one action.
C0Items(action) ==
    << R(\H00, \H17, action, None),
       K(\H19, action, None),
       R(\H1C, \H1F, action, None) >>

\* The items State.generate_state adds for state_id, in dict order
\* ('entry' and 'exit' are EntryAction and ExitAction below).
StateItems(state_id) ==
    CASE state_id = "ground" ->
           C0Items("execute") \o << R(\H20, \H7F, "print", None) >>
      [] state_id = "escape" ->
           C0Items("execute") \o
           << R(\H20, \H2F, "collect", "escape_intermediate"),
              R(\H30, \H4F, "esc_dispatch", "ground"),
              R(\H51, \H57, "esc_dispatch", "ground"),
              K(\H59, "esc_dispatch", "ground"),
              K(\H5A, "esc_dispatch", "ground"),
              K(\H5C, "esc_dispatch", "ground"),
              R(\H60, \H7E, "esc_dispatch", "ground"),
              K(\H58, None, "sos_pm_apc_string"),
              K(\H5E, None, "sos_pm_apc_string"),
              K(\H5F, None, "sos_pm_apc_string"),
              K(\H50, None, "dcs_entry"),
              K(\H5B, None, "csi_entry"),
              K(\H5D, None, "osc_string"),
              K(\H7F, "ignore", None) >>
      [] state_id = "escape_intermediate" ->
           C0Items("execute") \o
           << R(\H20, \H2F, "collect", None),
              R(\H30, \H7E, "esc_dispatch", "ground"),
              K(\H7F, "ignore", None) >>
      [] state_id = "csi_entry" ->
           C0Items("execute") \o
           << R(\H20, \H2F, "collect", "csi_intermediate"),
              R(\H30, \H39, "param", "csi_param"),
              K(\H3B, "param", "csi_param"),
              R(\H3C, \H3F, "collect", "csi_param"),
              K(\H3A, None, "csi_ignore"),
              R(\H40, \H7E, "csi_dispatch", "ground"),
              K(\H7F, "ignore", None) >>
      [] state_id = "csi_param" ->
           C0Items("execute") \o
           << R(\H20, \H2F, "collect", "csi_intermediate"),
              R(\H30, \H39, "param", None),
              K(\H3B, "param", None),
              K(\H3A, None, "csi_ignore"),
              R(\H3C, \H3F, None, "csi_ignore"),
              R(\H40, \H7E, "csi_dispatch", "ground"),
              K(\H7F, "ignore", None) >>
      [] state_id = "csi_intermediate" ->
           C0Items("execute") \o
           << R(\H20, \H2F, "collect", None),
              R(\H30, \H3F, None, "csi_ignore"),
              R(\H40, \H7E, "csi_dispatch", "ground"),
              K(\H7F, "ignore", None) >>
      [] state_id = "csi_ignore" ->
           C0Items("execute") \o
           << R(\H20, \H3F, "ignore", None),
              R(\H40, \H7E, None, "ground"),
              K(\H7F, "ignore", None) >>
      [] state_id = "dcs_entry" ->
           C0Items("ignore") \o
           << R(\H20, \H2F, "collect", "dcs_intermediate"),
              R(\H30, \H39, "param", "dcs_param"),
              K(\H3B, "param", "dcs_param"),
              R(\H3C, \H3F, "collect", "dcs_param"),
              K(\H3A, None, "dcs_ignore"),
              R(\H40, \H7E, None, "dcs_passthrough"),
              K(\H7F, "ignore", None) >>
      [] state_id = "dcs_param" ->
           C0Items("ignore") \o
           << R(\H20, \H2F, "collect", "dcs_intermediate"),
              R(\H30, \H39, "param", None),
              K(\H3B, "param", None),
              K(\H3A, None, "dcs_ignore"),
              R(\H3C, \H3F, None, "dcs_ignore"),
              R(\H40, \H7E, None, "dcs_passthrough"),
              K(\H7F, "ignore", None) >>
      [] state_id = "dcs_intermediate" ->
           C0Items("ignore") \o
           << R(\H20, \H2F, "collect", None),
              R(\H30, \H3F, None, "dcs_ignore"),
              R(\H40, \H7E, None, "dcs_passthrough"),
              K(\H7F, "ignore", None) >>
      [] state_id = "dcs_passthrough" ->
           C0Items("put") \o
           << R(\H20, \H7E, "put", None),
              K(\H7F, "ignore", None) >>
      [] state_id = "dcs_ignore" ->
           C0Items("ignore") \o << R(\H20, \H7F, "ignore", None) >>
      [] state_id = "osc_string" ->
           << R(\H00, \H06, "ignore", None),
              R(\H08, \H17, "ignore", None),
              K(\H19, "ignore", None),
              R(\H1C, \H1F, "ignore", None),
              R(\H20, \H7F, "osc_put", None),
              K(\H07, None, "ground") >>
      [] state_id = "sos_pm_apc_string" ->
           C0Items("ignore") \o << R(\H20, \H7F, "ignore", None) >>

\* State.generate_state: the defaults, then the state's own items.  No key is
\* assigned twice, so dict order is the order of the assignments.
GenerateState(state_id) == DefaultEventMap \o StateItems(state_id)

\* State.states, the class-level cache State.get fills.
StateTable == [s \in States |-> GenerateState(s)]

\* State.entry
EntryAction(state_id) ==
    CASE state_id \in {"escape", "csi_entry", "dcs_entry"} -> "clear"
      [] state_id \in {"dcs_passthrough", "dcs_ignore"} -> "hook"
      [] state_id = "osc_string" -> "osc_start"
      [] OTHER -> None

\* State.exit
ExitAction(state_id) ==
    CASE state_id = "dcs_passthrough" -> "unhook"
      [] state_id = "osc_string" -> "osc_end"
      [] OTHER -> None

\* State.event, lines 107-109, without the GR aliasing.
SCodeNoAlias(code) == code

\* State.event, lines 107-109: codes A0-FF are looked up as 20-7F.
SCode(code) == IF \HA0 <= code /\ code <= \HFF THEN code - \H80 ELSE code

Unmapped == [action |-> "NotImplementedError", state |-> None]

\* State.event, lines 111-125, without the search of the ranges.
EventLookupSingleKeys(event_map, s_code) ==
    LET singles == {i \in DOMAIN event_map :
                       event_map[i].single /\ event_map[i].lo = s_code}
    IN  IF singles # {}
        THEN [action |-> event_map[Max(singles)].action,
              state |-> event_map[Max(singles)].state]
        ELSE Unmapped

\* State.event, lines 111-125: a single key wins; otherwise the last range of the
\* dict that holds the code; NotImplementedError when there is none.
EventLookup(event_map, s_code) ==
    LET singles == {i \in DOMAIN event_map :
                       event_map[i].single /\ event_map[i].lo = s_code}
        ranges  == {i \in DOMAIN event_map :
                       /\ ~event_map[i].single
                       /\ event_map[i].lo <= s_code
                       /\ s_code <= event_map[i].hi}
        pick(i) == [action |-> event_map[i].action, state |-> event_map[i].state]
    IN  IF singles # {} THEN pick(Max(singles))
        ELSE IF ranges # {} THEN pick(Max(ranges))
        ELSE Unmapped

\* State.event for every state and code.
EventTable == [s \in States |-> [c \in 0..255 |-> EventLookup(StateTable[s], SCode(c))]]

\* State.event in which BEL does not end an OSC string.
EventBelIgnored(state_id, code) ==
    IF state_id = "osc_string" /\ code = \H07
    THEN [action |-> "ignore", state |-> None]
    ELSE EventTable[state_id][code]

\* State.event
Event(state_id, code) == EventTable[state_id][code]


(***************************************************************************)
(* vtparser.py: VT500Parser                                                *)
(***************************************************************************)
\* VT500Parser.__init__.  calls logs the handler calls and acts the actions
\* perform_action ran (with the state they ran in) during the latest input.
NewVT500Parser ==
    [ cls                      |-> "VT500Parser",
      state                    |-> "ground",
      private_flag             |-> <<>>,
      intermediate_char        |-> <<>>,
      final_char               |-> <<>>,
      parameter_string         |-> <<>>,
      device_control_string    |-> <<>>,
      operating_system_command |-> <<>>,
      error                    |-> None,
      acts                     |-> <<>>,
      calls                    |-> <<>> ]

Call(p, c) == [p EXCEPT !.calls = Append(@, c)]

\* VT500Parser.print
VtPrint(p, code) == Call(p, [h |-> "print", code |-> code])

\* VT500Parser.execute
VtExecute(p, code) == Call(p, [h |-> "execute", code |-> code])

\* VT500Parser.clear that forgets to reset the parameters.
VtClearKeepParams(p) ==
    [p EXCEPT !.private_flag = <<>>, !.intermediate_char = <<>>, !.final_char = <<>>]

\* VT500Parser.clear
VtClear(p) ==
    [p EXCEPT !.private_flag = <<>>, !.intermediate_char = <<>>,
              !.final_char = <<>>, !.parameter_string = <<>>]

\* VT500Parser.collect
VtCollect(p, code) ==
    IF \H3C <= code /\ code <= \H3F
    THEN [p EXCEPT !.private_flag = <<code>>]
    ELSE [p EXCEPT !.intermediate_char = Append(@, code)]

\* VT500Parser.param
VtParam(p, code) == [p EXCEPT !.parameter_string = Append(@, code)]

Dispatched(h, p) ==
    [ h |-> h, private |-> p.private_flag, params |-> p.parameter_string,
      intermediate |-> p.intermediate_char, final |-> p.final_char ]

\* VT500Parser.esc_dispatch
VtEscDispatch(p, code) ==
    LET q == [p EXCEPT !.final_char = Append(@, code)]
    IN  Call(q, Dispatched("esc_dispatch", q))

\* VT500Parser.csi_dispatch
VtCsiDispatch(p, code) ==
    LET q == [p EXCEPT !.final_char = Append(@, code)]
    IN  Call(q, Dispatched("csi_dispatch", q))

\* VT500Parser.hook
VtHook(p, code) ==
    LET q == [p EXCEPT !.final_char = Append(@, code), !.device_control_string = <<>>]
    IN  Call(q, Dispatched("hook", q))

\* VT500Parser.put
VtPut(p, code) ==
    Call([p EXCEPT !.device_control_string = Append(@, code)],
         [h |-> "put", code |-> code])

\* VT500Parser.unhook
VtUnhook(p) == Call(p, [h |-> "dcs_end_of_data"])

\* VT500Parser.osc_start
VtOscStart(p) ==
    Call([p EXCEPT !.operating_system_command = <<>>], [h |-> "osc_start"])

\* VT500Parser.osc_put
VtOscPut(p, code) ==
    Call([p EXCEPT !.operating_system_command = Append(@, code)],
         [h |-> "osc_put", code |-> code])

\* VT500Parser.osc_end
VtOscEnd(p) == Call(p, [h |-> "osc_end_of_data"])


(***************************************************************************)
(* Byte strings, and the regular expressions of terminalparser.py.         *)
(* Positions are Python's, counted from 0.  A line holds 0x0A only as its  *)
(* last byte (it comes from readline), so a '.*' of a pattern spans any    *)
(* bytes before the literal that follows it.                               *)
(***************************************************************************)
Min(S) == CHOOSE x \in S : \A y \in S : x <= y

At(s, i) == s[i + 1]

\* bytes.startswith at offset i
StartsWithAt(s, i, lit) ==
    /\ i >= 0
    /\ i + Len(lit) <= Len(s)
    /\ \A k \in 1..Len(lit) : s[i + k] = lit[k]

\* str.endswith
EndsWith(s, lit) == StartsWithAt(s, Len(s) - Len(lit), lit)

\* bytes.find(lit, start)
Find(s, lit, start) ==
    LET hits == {i \in start..(Len(s) - Len(lit)) : StartsWithAt(s, i, lit)}
    IN  IF hits = {} THEN -1 ELSE Min(hits)

Contains(s, lit) == Find(s, lit, 0) >= 0

\* s[i:]
Slice(s, i) == SubSeq(s, i + 1, Len(s))

\* line[-70:]
Tail70(s) == IF Len(s) <= 70 THEN s ELSE SubSeq(s, Len(s) - 69, Len(s))

VIM_START ==   \* b"hint: Waiting for your editor to close the file... "
    << 104, 105, 110, 116, 58, 32, 87, 97, 105, 116, 105, 110, 103, 32, 102,
       111, 114, 32, 121, 111, 117, 114, 32, 101, 100, 105, 116, 111, 114, 32,
       116, 111, 32, 99, 108, 111, 115, 101, 32, 116, 104, 101, 32, 102, 105,
       108, 101, 46, 46, 46, 32 >>

\* b"\x1b[?2004l\r", the optional prefix of RE_VIM_START_0
BRACKETED_PASTE_OFF_CR == <<27, 91, 63, 50, 48, 48, 52, 108, 13>>

\* b"\x1b[22;0;0t", group t2200 of RE_VIM_START_1
CSI_22_0_0_t == <<27, 91, 50, 50, 59, 48, 59, 48, 116>>

\* b"\x1b[22;2t\x1b[22;1t", the end of RE_VIM_START_1
CSI_22_2_t_22_1_t == <<27, 91, 50, 50, 59, 50, 116, 27, 91, 50, 50, 59, 49, 116>>

\* b"\x1b[2;1H\xe2\x96\xbd\x1b[6n\x1b[2;1H  ", the end of RE_VIM_START_2
VIM_CURSOR_QUERY ==
    << 27, 91, 50, 59, 49, 72, 226, 150, 189, 27, 91, 54, 110, 27, 91, 50, 59,
       49, 72, 32, 32 >>

\* b"\x1b[23;0;0t", the literal of RE_VIM_END_1
CSI_23_0_0_t == <<27, 91, 50, 51, 59, 48, 59, 48, 116>>

\* b"\x1b[?1l\x1b>", the literal of RE_VIM_END_2
CKM_RESET_KPNM == <<27, 91, 63, 49, 108, 27, 62>>

\* b"\x1b[?1049l\x1b[23;0;0t", the optional prefix of RE_PROMPT_INLINE
ALT_SCREEN_OFF_23 ==
    <<27, 91, 63, 49, 48, 52, 57, 108, 27, 91, 50, 51, 59, 48, 59, 48, 116>>

\* b"\r\x1b[K", the optional prefix of RE_PROMPT_POSTVIM
CR_EL == <<13, 27, 91, 75>>

MINGW64 == <<77, 73, 78, 71, 87, 54, 52>>

\* b"\x1b[00m"
CSI_00_m == <<27, 91, 48, 48, 109>>

IsDigit(c) == 48 <= c /\ c <= 57

IsLower(c) == 97 <= c /\ c <= 122

IsUpper(c) == 65 <= c /\ c <= 90

\* [a-z.]
IsUserCh(c) == IsLower(c) \/ c = 46

\* [-a-zA-Z0-9]
IsHostCh(c) == c = 45 \/ IsLower(c) \/ IsUpper(c) \/ IsDigit(c)

\* [-.\w/ ]
IsCwdCh(c) == c \in {45, 46, 47, 32, 95} \/ IsLower(c) \/ IsUpper(c) \/ IsDigit(c)

\* [-.\w/|! ]
IsBranchCh(c) == IsCwdCh(c) \/ c \in {124, 33}

\* [0-9;]
IsSgrCh(c) == IsDigit(c) \/ c = 59

\* The offset after the longest run of bytes of a class that starts at offset i.
RunEnd(s, i, Cls(_)) ==
    LET stops == {j \in i..(Len(s) - 1) : ~Cls(At(s, j))}
    IN  IF stops = {} THEN Len(s) ELSE Min(stops)

\* Offsets after one or more bytes of a class, from any offset of P.
Plus(s, P, Cls(_)) == UNION {(i + 1)..RunEnd(s, i, Cls) : i \in {j \in P : j <= Len(s)}}

\* Offsets after a literal, from any offset of P.
Lit(s, P, lit) == {i + Len(lit) : i \in {j \in P : StartsWithAt(s, j, lit)}}

\* Offsets after one byte of the set C, from any offset of P.
Ch(s, P, C) == {i + 1 : i \in {j \in P : j < Len(s) /\ At(s, j) \in C}}

\* The offset after \x1b\[[0-9;]+m at offset i, or -1.
SgrEnd(s, i) ==
    IF StartsWithAt(s, i, <<27, 91>>)
    THEN LET e == RunEnd(s, i + 2, IsSgrCh)
         IN  IF e > i + 2 /\ e < Len(s) /\ At(s, e) = 109 THEN e + 1 ELSE -1
    ELSE -1

\* (?:\x1b\[[0-9;]+m)
Sgr(s, P) == {SgrEnd(s, i) : i \in P} \ {-1}

\* (?:\x1b\[[0-9;]+m)?
OptSgr(s, P) == P \cup Sgr(s, P)

\* The offset after \x1b\[[0-9];[0-9]+r at offset i, or -1 (RE_VIM_START_1, _2).
ScrollRegionEnd(s, i) ==
    IF /\ StartsWithAt(s, i, <<27, 91>>)
       /\ i + 3 < Len(s)
       /\ IsDigit(At(s, i + 2))
       /\ At(s, i + 3) = 59
    THEN LET e == RunEnd(s, i + 4, IsDigit)
         IN  IF e > i + 4 /\ e < Len(s) /\ At(s, e) = 114 THEN e + 1 ELSE -1
    ELSE -1

\* RE_PROMPT up to group cwd: the offsets where cwd may start, matching from p.
PromptHead(s, p) ==
    With(Plus(s, OptSgr(s, {p}), IsUserCh), LAMBDA P1 :
    With(Plus(s, OptSgr(s, Ch(s, OptSgr(s, P1), {64})), IsHostCh), LAMBDA GA :
         OptSgr(s, Ch(s, OptSgr(s, P1 \cup GA), {58, 32}))))

\* Group cwd, (~?[-.\w/ ]+|~): the offsets where a cwd that starts at c may end.
CwdEnds(s, c) ==
    With(c < Len(s) /\ At(s, c) = 126, LAMBDA tilde :
         Plus(s, IF tilde THEN {c, c + 1} ELSE {c}, IsCwdCh)
           \cup (IF tilde THEN {c + 1} ELSE {}))

\* RE_PROMPT after group cwd: the offsets where a match may end.
PromptTail(s, e) ==
    With(OptSgr(s, {e}), LAMBDA P7 :
    With(Ch(s, Ch(s, Sgr(s, P7), {32}), {40}), LAMBDA G2 :
    With(Ch(s, Plus(s, G2 \cup Ch(s, G2, {40}), IsBranchCh), {41}), LAMBDA G4 :
    With(Sgr(s, Ch(s, G4 \cup Ch(s, G4, {41}), {32})), LAMBDA G6 :
    With(Ch(s, OptSgr(s, P7 \cup G6), {36}), LAMBDA P10 :
         Ch(s, P10 \cup Lit(s, P10, CSI_00_m), {32}))))))

NoMatch == [ok |-> FALSE, cwd |-> <<>>]

\* re.compile(RE_PROMPT).match(s, p), with group cwd.  The bytes that may follow
\* each part of the pattern are outside the class of the part, so at most one
\* (start, end) of cwd lets the whole pattern match.
RePrompt(s, p) ==
    With({ce \in UNION {{<<c, e>> : e \in CwdEnds(s, c)} : c \in PromptHead(s, p)} :
             PromptTail(s, ce[2]) # {}}, LAMBDA cands :
         IF cands = {} THEN NoMatch
         ELSE With(CHOOSE x \in cands : \A y \in cands : y[2] <= x[2], LAMBDA ce :
                   [ok |-> TRUE, cwd |-> SubSeq(s, ce[1] + 1, ce[2])]))

\* re.compile(RE_PROMPT_LINESTART).match(s)
RePromptLinestart(s) == RePrompt(s, 0).ok

\* A pattern that is an optional literal prefix followed by RE_PROMPT: the prefix
\* starts with a control byte, which RE_PROMPT cannot start with.
RePromptAfter(s, p, prefix) ==
    RePrompt(s, IF StartsWithAt(s, p, prefix) THEN p + Len(prefix) ELSE p).ok

\* re.compile(RE_PROMPT_INLINE).match(s, p)
RePromptInline(s, p) == RePromptAfter(s, p, ALT_SCREEN_OFF_23)

\* re.compile(RE_PROMPT_POSTVIM).match(s, p)
RePromptPostVim(s, p) == RePromptAfter(s, p, CR_EL)

\* re.compile(RE_PROMPT_HEADER).match(s), with group cwd (greedy, nothing follows).
RePromptHeader(s) ==
    LET H3 == Plus(s, Ch(s, Plus(s, OptSgr(s, {0}), IsUserCh), {64}), IsHostCh)
        H6 == Lit(s, OptSgr(s, Ch(s, H3, {32})), MINGW64)
        H9 == OptSgr(s, Ch(s, OptSgr(s, H6), {32}))
    IN  With(UNION {{<<c, e>> : e \in CwdEnds(s, c)} : c \in H9}, LAMBDA cands :
             IF cands = {} THEN NoMatch
             ELSE With(Min({x[1] : x \in cands}), LAMBDA c :
                  With(Plus(s, IF At(s, c) = 126 THEN {c + 1} ELSE {c}, IsCwdCh), LAMBDA e1 :
                       [ok |-> TRUE,
                        cwd |-> SubSeq(s, c + 1, IF e1 # {} THEN Max(e1) ELSE c + 1)])))

\* re.compile(RE_VIM_START_0).match(s)
ReVimStart0(s) ==
    \/ StartsWithAt(s, 0, VIM_START)
    \/ StartsWithAt(s, 0, BRACKETED_PASTE_OFF_CR \o VIM_START)

\* Group height did not take part in the match ([0-9]+ is never empty).
NoHeight == <<>>

\* The digits of group height: the last \x1b\[[0-9];[0-9]+r at or after offset
\* lo that ends at or before offset hi, or NoHeight.
HeightIn(s, lo, hi) ==
    With({i \in lo..(Len(s) - 1) : ScrollRegionEnd(s, i) \in 0..hi}, LAMBDA at :
         IF at = {} THEN NoHeight
         ELSE SubSeq(s, Max(at) + 5, ScrollRegionEnd(s, Max(at)) - 1))

\* re.compile(RE_VIM_START_1).match(s): the last 22;0;0t that a 22;2t 22;1t
\* follows, and between them the last scroll region, if any.
ReVimStart1(s) ==
    With({j \in 0..Len(s) : StartsWithAt(s, j, CSI_22_2_t_22_1_t)}, LAMBDA ends :
    With({i \in 0..Len(s) :
             /\ StartsWithAt(s, i, CSI_22_0_0_t)
             /\ \E j \in ends : j >= i + Len(CSI_22_0_0_t)}, LAMBDA from :
         IF from = {} THEN [ok |-> FALSE, height |-> NoHeight]
         ELSE [ok |-> TRUE,
               height |-> HeightIn(s, Max(from) + Len(CSI_22_0_0_t), Max(ends))]))

\* re.compile(RE_VIM_START_2).match(s): the last scroll region that the cursor
\* query follows.  Group file only feeds a log message and is left out.
ReVimStart2(s) ==
    With({j \in 0..Len(s) : StartsWithAt(s, j, VIM_CURSOR_QUERY)}, LAMBDA ends :
    With(IF ends = {} THEN NoHeight ELSE HeightIn(s, 0, Max(ends)), LAMBDA height :
         [ok |-> height # NoHeight, height |-> height]))

\* re.compile(RE_VIM_END_1).match(s)
ReVimEnd1(s) == Contains(s, CSI_23_0_0_t)

\* re.compile(RE_VIM_END_2).match(s)
ReVimEnd2(s) == Contains(s, CKM_RESET_KPNM)


(***************************************************************************)
(* terminalparser.py: TermLogParser                                        *)
(***************************************************************************)
VimStates == {"VIM_START", "VIM_SESSION_ONELINE", "VIM_ENDING"}

\* TermLogParser.DefaultEventListener
DefaultEventListener == [kind |-> "DefaultEventListener"]

\* AppModeStateMachine.__init__
NewAppMode == [app_mode_active |-> FALSE, ckm_set_pos |-> -1, ckm_reset_pos |-> -1]

\* AppModeStateMachine.input: the machine after the input, and the event returned.
AppModeInput(am, code, pos) ==
    CASE code = "DECCKM-S" ->
           [am |-> [am EXCEPT !.ckm_set_pos = pos], event |-> ""]
      [] code = "DECKPAM" ->
           IF am.ckm_set_pos = pos - 2 /\ ~am.app_mode_active
           THEN [am |-> [am EXCEPT !.app_mode_active = TRUE], event |-> "enter"]
           ELSE [am |-> am, event |-> ""]
      [] code = "DECCKM-R" ->
           [am |-> [am EXCEPT !.ckm_reset_pos = pos], event |-> ""]
      [] code = "DECKPNM" ->
           IF am.ckm_reset_pos = pos - 2 /\ am.app_mode_active
           THEN [am |-> [am EXCEPT !.app_mode_active = FALSE], event |-> "exit"]
           ELSE [am |-> am, event |-> ""]
      [] OTHER -> [am |-> am, event |-> ""]

\* TermLogParser.__init__.  events logs the calls made to tlp_event_listener,
\* each with the detector state and the line_pos it was made at.
NewTermLogParser ==
    [ cls                      |-> "TermLogParser",
      state                    |-> "ground",
      private_flag             |-> <<>>,
      intermediate_char        |-> <<>>,
      final_char               |-> <<>>,
      parameter_string         |-> <<>>,
      device_control_string    |-> <<>>,
      operating_system_command |-> <<>>,
      error                    |-> None,
      acts                     |-> <<>>,
      calls                    |-> <<>>,
      tlp_state                |-> "NORMAL",
      tlp_event_listener       |-> DefaultEventListener,
      app_mode                 |-> NewAppMode,
      osc_string               |-> <<>>,
      line                     |-> <<>>,
      line_pos                 |-> 0,
      vim_2200_seen            |-> FALSE,
      next_vim                 |-> -1,
      events                   |-> <<>> ]


(***************************************************************************)
(* asciinema2html.py: VimRecording, and the event handlers of              *)
(* Asciinema2Html.  Timestamps are counted in microseconds, the precision  *)
(* asciinema writes them with.  A frame is [ts, payload] with the payload  *)
(* as its UTF-8 bytes; the channel frame[1] is copied unread and left out. *)
(***************************************************************************)
RE_MULTILINE == 8

\* The same thresholds walked from the smallest up.
QStepsAscending == <<30000, 100000, 180000, 300000, 500000, 1000000, 2000000, 4000000>>

\* The list quantize_ts walks: 4.0, 2.0, 1.0, 0.5, 0.3, 0.18, 0.1, 0.03.
QSteps == <<4000000, 2000000, 1000000, 500000, 300000, 180000, 100000, 30000>>

\* VimRecording.quantize_ts
QuantizeTs(ts) ==
    LET hit == {i \in DOMAIN QSteps : ts >= QSteps[i]}
    IN  IF hit = {} THEN ts ELSE QSteps[Min(hit)]

\* VimRecording.__init__; frames is unset until start.
NewVimRecording(asciinfo) ==
    [asciinfo |-> asciinfo, last_ts |-> 0, frames |-> <<>>]

\* VimRecording.start: the header (with the height overridden when one is given),
\* then the synthetic frame at 0.0.
VimRecordingStart(rec, start_ts, height) ==
    LET asciinfo == IF height >= 0 /\ height # rec.asciinfo.height
                    THEN [rec.asciinfo EXCEPT !.height = height]
                    ELSE rec.asciinfo
    IN  [rec EXCEPT !.last_ts = start_ts,
                    !.frames = << [kind |-> "header", ts |-> 0, payload |-> <<>>,
                                   height |-> asciinfo.height],
                                  [kind |-> "start", ts |-> 0, payload |-> <<>>,
                                   height |-> 0] >>]

\* round(x, 5) for x >= 0 in microseconds: the nearest multiple of ten
\* microseconds.  (A value ending in 5 microseconds lies, as a binary float, on
\* one side of the middle or the other; the timestamps fed below end in no 5.)
Round5(x) == ((x + 5) \div 10) * 10

\* Pairs <<last_ts, ts>> of the timestamps fed below whose difference, computed
\* on binary doubles as Python computes it, falls short of the decimal
\* difference when that is exactly a threshold of quantize_ts:
\* 2.01 - 0.01 = 1.9999999999999998 and 0.12 - 0.02 = 0.09999999999999999.
DiffFallsShort == { <<10000, 2010000>>, <<20000, 120000>> }

\* ts - self.last_ts of frame_time.  A difference that falls short is
\* counted one microsecond short: it stays below its threshold and rounds to
\* the same timestamp.
TsDiff(ts, last_ts) ==
    IF <<last_ts, ts>> \in DiffFallsShort THEN ts - last_ts - 1 ELSE ts - last_ts

\* frame_time without the timestamp of the last saved frame.
FrameTimeRelative(rec, ts) == Round5(QuantizeTs(TsDiff(ts, rec.last_ts)))

\* VimRecording.frame_time, the timestamp returned.
FrameTime(rec, ts) ==
    LET ts_diff == QuantizeTs(TsDiff(ts, rec.last_ts))
        ts_prev == IF Len(rec.frames) > 1 THEN Last(rec.frames).ts ELSE 0
    IN  Round5(ts_prev + ts_diff)

\* VimRecording.add
VimRecordingAdd(rec, frame) ==
    [rec EXCEPT !.last_ts = frame.ts,
                !.frames = Append(@, [kind |-> "frame", ts |-> FrameTime(rec, frame.ts),
                                      payload |-> frame.payload, height |-> 0])]

\* VimRecording.addall, after its log call
RECURSIVE VimRecordingAddAll(_, _)
VimRecordingAddAll(rec, frames) ==
    IF frames = <<>> THEN rec
    ELSE VimRecordingAddAll(VimRecordingAdd(rec, Head(frames)), Tail(frames))

\* Asciinema2Html.vim_ends_in_frame_line as it was meant: a search of the whole
\* payload.
VimEndsInFrameLineWhole(frameline) ==
    Contains(frameline, CSI_23_0_0_t) \/ Contains(frameline, CKM_RESET_KPNM)

\* Asciinema2Html.vim_ends_in_frame_line: search(frameline, re.MULTILINE) hands
\* the flag to the parameter pos, so the search starts at offset 8.
VimEndsInFrameLine(frameline) ==
    \/ Find(frameline, CSI_23_0_0_t, RE_MULTILINE) >= 0
    \/ Find(frameline, CKM_RESET_KPNM, RE_MULTILINE) >= 0

\* Asciinema2Html.vim_ends_in_frame
VimEndsInFrame(frame) == VimEndsInFrameLine(frame.payload)

\* int(ev_props["height"])
RECURSIVE DigitsToInt(_)
DigitsToInt(d) ==
    IF d = <<>> THEN 0 ELSE 10 * DigitsToInt(Front(d)) + (Last(d) - 48)

\* Asciinema2Html.__init__ (with VT2Html.__init__'s in_vim)
NewAsciinema2Html(asciinfo) ==
    [ kind          |-> "Asciinema2Html",
      byteline      |-> <<>>,
      framebuffer   |-> <<>>,
      in_vim        |-> FALSE,
      capturing_vim |-> FALSE,
      vimrecording  |-> NewVimRecording(asciinfo),
      error         |-> None ]

\* Asciinema2Html.vim_start.  framebuffer[0] raises IndexError on an empty buffer,
\* and so does the log call of addall (frames[0][0]) once the only frame is popped.
A2hVimStart(r, ev_props) ==
    LET r1     == [r EXCEPT !.in_vim = TRUE, !.capturing_vim = TRUE]
        height == IF ev_props.height # NoHeight THEN DigitsToInt(ev_props.height) ELSE -1
    IN  IF r1.framebuffer = <<>> THEN [r1 EXCEPT !.error = "IndexError"]
        ELSE With([r1 EXCEPT !.vimrecording =
                       VimRecordingStart(@, r1.framebuffer[1].ts, height)], LAMBDA r2 :
             With(IF VimEndsInFrame(Last(r2.framebuffer))
                  THEN [r2 EXCEPT !.framebuffer = Front(@), !.capturing_vim = FALSE]
                  ELSE r2, LAMBDA r3 :
                  IF r3.framebuffer = <<>> THEN [r3 EXCEPT !.error = "IndexError"]
                  ELSE [r3 EXCEPT !.vimrecording = VimRecordingAddAll(@, r3.framebuffer)]))

\* Asciinema2Html.vim_end; the document's vim_session writes the dropdown and
\* changes nothing of the reader.
A2hVimEnd(r) == [r EXCEPT !.in_vim = FALSE, !.capturing_vim = FALSE]


(***************************************************************************)
(* terminal2html.py: the span stack of HtmlDocumentCreator.  Strings are   *)
(* byte strings as above.  An entry of html_span_stack is                  *)
(* [value, attr] for the tuple (value, 'class' or 'style').  What one call *)
(* writes to fh is kept as the list of its pieces: [tag |-> "/span"] for   *)
(* "</span>", [tag |-> "span", attr, value] for '<span attr="value">'.     *)
(***************************************************************************)
S_bold == <<98, 111, 108, 100>>            \* "bold"
S_underline == <<117, 110, 100, 101, 114, 108, 105, 110, 101>>  \* "underline"
S_blink == <<98, 108, 105, 110, 107>>          \* "blink"
S_reverse == <<114, 101, 118, 101, 114, 115, 101>>      \* "reverse"
S_color_rgb == <<99, 111, 108, 111, 114, 58, 114, 103, 98>>  \* "color:rgb"
S_background_color_rgb ==   \* "background-color:rgb"
    <<98, 97, 99, 107, 103, 114, 111, 117, 110, 100, 45, 99, 111, 108, 111, 114, 58, 114, 103, 98>>
S_f == <<102>>              \* "f"
S_b == <<98>>               \* "b"
S_ef == <<101, 102>>        \* "ef"
S_eb == <<101, 98>>         \* "eb"
S_22 == <<50, 50>>
S_24 == <<50, 52>>
S_27 == <<50, 55>>
S_39 == <<51, 57>>
S_49 == <<52, 57>>
S_38 == <<51, 56>>
S_48 == <<52, 56>>

\* HtmlDocumentCreator.__init__, as far as the span stack and the command
\* blocks go; hopto is left at its default {'hops': [-1]}, chapters at {}.
NewHtmlDocumentCreator(cmd_filter) ==
    [ kind              |-> "HtmlDocumentCreator",
      filter            |-> cmd_filter,
      html_span_stack   |-> <<>>,
      cmd_count         |-> 0,
      cmd_number        |-> 0,
      output_suppressed |-> FALSE,
      written           |-> <<>>,
      error             |-> None ]

CloseTag == [tag |-> "/span"]

OpenTag(span) == [tag |-> "span", attr |-> span.attr, value |-> span.value]

\* "</span>" * n
RECURSIVE CloseTags(_)
CloseTags(n) == IF n <= 0 THEN <<>> ELSE <<CloseTag>> \o CloseTags(n - 1)

\* regex.match(value) for RE_BOLD_SPAN, RE_UNDERLINE_SPAN, RE_REVERSE_SPAN,
\* RE_FG_SPAN = (color:rgb)|(e?f) and RE_BG_SPAN = (background-color:rgb)|(e?b[0-9])
SpanMatches(regex, value) ==
    CASE regex = "RE_BOLD_SPAN" -> StartsWithAt(value, 0, S_bold)
      [] regex = "RE_UNDERLINE_SPAN" -> StartsWithAt(value, 0, S_underline)
      [] regex = "RE_REVERSE_SPAN" -> StartsWithAt(value, 0, S_reverse)
      [] regex = "RE_FG_SPAN" ->
             \/ StartsWithAt(value, 0, S_color_rgb)
             \/ StartsWithAt(value, 0, S_f)
             \/ StartsWithAt(value, 0, S_ef)
      [] regex = "RE_BG_SPAN" ->
             \/ StartsWithAt(value, 0, S_background_color_rgb)
             \/ (StartsWithAt(value, 0, S_b) /\ Len(value) >= 2 /\ IsDigit(value[2]))
             \/ (StartsWithAt(value, 0, S_eb) /\ Len(value) >= 3 /\ IsDigit(value[3]))

\* _close_span that leaves the spans after the one it removes closed.
CloseSpanTruncate(stack, regex) ==
    LET hits == {i \in DOMAIN stack : SpanMatches(regex, stack[i].value)}
        idx  == Max(hits)
    IN  IF hits = {} THEN [stack |-> stack, spans |-> <<>>, error |-> "IndexError"]
        ELSE [ stack |-> SubSeq(stack, 1, idx - 1),
               spans |-> CloseTags(Len(stack) - idx + 1),
               error |-> None ]

\* _close_span that takes the outermost matching span.
CloseSpanOutermost(stack, regex) ==
    LET hits == {i \in DOMAIN stack : SpanMatches(regex, stack[i].value)}
        idx  == Min(hits)
        kept == SubSeq(stack, 1, idx - 1) \o SubSeq(stack, idx + 1, Len(stack))
    IN  IF hits = {} THEN [stack |-> stack, spans |-> <<>>, error |-> "IndexError"]
        ELSE [ stack |-> kept,
               spans |-> CloseTags(Len(stack) - idx + 1)
                             \o [i \in 1..(Len(kept) - idx + 1) |-> OpenTag(kept[idx + i - 1])],
               error |-> None ]

\* HtmlDocumentCreator._close_span: [stack, spans, error], spans being the
\* string returned.  idx counts from 1 here.
CloseSpan(stack, regex) ==
    LET hits == {i \in DOMAIN stack : SpanMatches(regex, stack[i].value)}
        idx  == Max(hits)
        kept == SubSeq(stack, 1, idx - 1) \o SubSeq(stack, idx + 1, Len(stack))
    IN  IF hits = {} THEN [stack |-> stack, spans |-> <<>>, error |-> "IndexError"]
        ELSE [ stack |-> kept,
               spans |-> CloseTags(Len(stack) - idx + 1)
                             \o [i \in 1..(Len(kept) - idx + 1) |-> OpenTag(kept[idx + i - 1])],
               error |-> None ]

\* str.split(';')
RECURSIVE Split(_)
Split(param) ==
    LET k == Find(param, <<59>>, 0)
    IN  IF k < 0 THEN <<param>>
        ELSE <<SubSeq(param, 1, k)>> \o Split(Slice(param, k + 1))

\* str(n) for 0 <= n < 100
Str(n) == IF n < 10 THEN <<48 + n>> ELSE <<48 + (n \div 10), 48 + (n % 10)>>

\* The regular expression that the closing code p names, or None.
ClosingRegex(p) ==
    CASE p = S_22 -> "RE_BOLD_SPAN"
      [] p = S_24 -> "RE_UNDERLINE_SPAN"
      [] p = S_27 -> "RE_REVERSE_SPAN"
      [] p = S_39 -> "RE_FG_SPAN"
      [] p = S_49 -> "RE_BG_SPAN"
      [] OTHER -> None

\* One pass through the body of "for p in params" of convert_csi, on
\* x = [stack, s_classes, span, error].  int('') raises ValueError.
SgrCode(x, p) ==
    LET n == DigitsToInt(p)
        d == Last(p) - 48       \* int(p[-1])
    IN  IF p = <<>> THEN [x EXCEPT !.error = "ValueError"]
        ELSE IF 30 <= n /\ n <= 37 THEN [x EXCEPT !.s_classes = <<S_f \o <<Last(p)>> >> \o @]
        ELSE IF 40 <= n /\ n <= 47 THEN [x EXCEPT !.s_classes = <<S_b \o <<Last(p)>> >> \o @]
        ELSE IF 90 <= n /\ n <= 97 THEN [x EXCEPT !.s_classes = <<S_ef \o Str(8 + d)>> \o @]
        ELSE IF 100 <= n /\ n <= 107 THEN [x EXCEPT !.s_classes = <<S_eb \o Str(8 + d)>> \o @]
        ELSE IF n = 1 THEN [x EXCEPT !.s_classes = Append(@, S_bold)]
        ELSE IF n = 4 THEN [x EXCEPT !.s_classes = Append(@, S_underline)]
        ELSE IF n = 5 THEN [x EXCEPT !.s_classes = Append(@, S_blink)]
        ELSE IF n = 7 THEN [x EXCEPT !.s_classes = Append(@, S_reverse)]
        ELSE IF ClosingRegex(p) # None
        THEN With(CloseSpan(x.stack, ClosingRegex(p)), LAMBDA c :
                  [x EXCEPT !.stack = c.stack, !.span = @ \o c.spans, !.error = c.error])
        ELSE [x EXCEPT !.error = "NotImplementedError"]

\* "for p in params" of convert_csi, left at the first exception.
RECURSIVE SgrCodes(_, _)
SgrCodes(x, params) ==
    IF params = <<>> \/ x.error # None THEN x
    ELSE SgrCodes(SgrCode(x, Head(params)), Tail(params))

\* The branch for a leading 38 or 48 that takes any count of three or more
\* parameters.
SgrColourAnyCount(params) ==
    LET n    == Len(params)
        fg   == params[1] = S_38
        rgb  == <<40>> \o params[n - 2] \o <<44>> \o params[n - 1] \o <<44>> \o params[n]
                    \o <<41>>
    IN  IF n < 3 THEN [s_classes |-> <<>>, s_style |-> <<>>]
        ELSE IF params[2] = <<53>>
             THEN [s_classes |-> << (IF fg THEN S_ef ELSE S_eb) \o params[3] >>,
                   s_style |-> <<>>]
        ELSE [s_classes |-> <<>>,
              s_style |-> (IF fg THEN S_color_rgb ELSE S_background_color_rgb) \o rgb]

\* The branch of convert_csi for a leading 38 or 48: [s_classes, s_style].
SgrColour(params) ==
    LET n    == Len(params)
        fg   == params[1] = S_38
        rgb  == <<40>> \o params[n - 2] \o <<44>> \o params[n - 1] \o <<44>> \o params[n]
                    \o <<41>>
    IN  IF n # 3 /\ n # 5 /\ n # 6 THEN [s_classes |-> <<>>, s_style |-> <<>>]
        ELSE IF params[2] = <<53>>
             THEN [s_classes |-> << (IF fg THEN S_ef ELSE S_eb) \o params[3] >>,
                   s_style |-> <<>>]
        ELSE [s_classes |-> <<>>,
              s_style |-> (IF fg THEN S_color_rgb ELSE S_background_color_rgb) \o rgb]

\* The spans pushed and the tags written for s_classes, lines 308-310.
ClassSpans(s_classes) == [i \in DOMAIN s_classes |-> [value |-> s_classes[i], attr |-> "class"]]

ClassTags(s_classes) == [i \in DOMAIN s_classes |-> OpenTag(ClassSpans(s_classes)[i])]

\* The test of line 246 without the parameter string "00".
IsResetShort(param) == param = <<>> \/ param = <<48>>

\* param == '' or param == '0' or param == '00'
IsReset(param) == param = <<>> \/ param = <<48>> \/ param = <<48, 48>>

\* HtmlDocumentCreator.convert_csi.  An exception leaves the document as the
\* calls made before it left it and writes nothing.
ConvertCsi(doc, param, final) ==
    LET d0     == [doc EXCEPT !.written = <<>>]
        params == Split(param)
    IN  IF doc.output_suppressed THEN d0
        ELSE IF final # 109 THEN d0
        ELSE IF IsReset(param)
        THEN [d0 EXCEPT !.written = CloseTags(Len(doc.html_span_stack)),
                        !.html_span_stack = <<>>]
        ELSE IF params[1] = S_38 \/ params[1] = S_48
        THEN With(SgrColour(params), LAMBDA c :
                  [d0 EXCEPT !.html_span_stack =
                                 @ \o ClassSpans(c.s_classes)
                                   \o (IF c.s_style # <<>>
                                       THEN <<[value |-> c.s_style, attr |-> "style"]>>
                                       ELSE <<>>),
                             !.written =
                                 IF c.s_style # <<>>
                                 THEN <<[tag |-> "span", attr |-> "style", value |-> c.s_style]>>
                                 ELSE ClassTags(c.s_classes)])
        ELSE With(SgrCodes([stack |-> doc.html_span_stack, s_classes |-> <<>>,
                            span |-> <<>>, error |-> None], params), LAMBDA x :
                  IF x.error # None
                  THEN [d0 EXCEPT !.html_span_stack = x.stack, !.error = x.error]
                  ELSE [d0 EXCEPT !.html_span_stack = x.stack \o ClassSpans(x.s_classes),
                                  !.written = x.span \o ClassTags(x.s_classes)])

\* close_all_spans that writes the closing tags and keeps the stack.
CloseAllSpansKeepStack(doc) ==
    IF doc.html_span_stack # <<>>
    THEN [doc EXCEPT !.written = @ \o CloseTags(Len(doc.html_span_stack))]
    ELSE doc

\* HtmlDocumentCreator.close_all_spans
CloseAllSpans(doc) ==
    IF doc.html_span_stack # <<>>
    THEN [doc EXCEPT !.written = @ \o CloseTags(Len(doc.html_span_stack)),
                     !.html_span_stack = <<>>]
    ELSE doc

\* HtmlDocumentCreator.new_cmd_block; hops[0] = -1 is no cmd_count and no
\* chapter is given.  The markup around a block is written as one piece.
NewCmdBlock(doc) ==
    LET d1 == CloseAllSpans([doc EXCEPT !.written = <<>>])
        d2 == [d1 EXCEPT !.written = Append(@, [tag |-> "/pre"]), !.cmd_count = @ + 1]
    IN  IF d2.cmd_count \in d2.filter
        THEN [d2 EXCEPT !.output_suppressed = TRUE]
        ELSE [d2 EXCEPT !.output_suppressed = FALSE,
                        !.cmd_number = @ + 1,
                        !.written = Append(@, [tag |-> "pre"])]


(***************************************************************************)
(* terminal2html.py: LineBuilder.  An element of line is [code, csi]: a    *)
(* character has its code and csi = <<>>, the tuple ('CSI', [private,      *)
(* param, interm, final]) has csi = <<private, param, interm, final>>.     *)
(* The exception a method raises is kept in the field error.               *)
(***************************************************************************)
Chr(code) == [code |-> code, csi |-> <<>>]

CsiTuple(private, param, interm, final) ==
    [code |-> 0, csi |-> <<private, param, interm, final>>]

\* isinstance(elem, tuple)
IsTuple(elem) == elem.csi # <<>>

SPACE == 32

\* list.insert(i, x) for i >= 0
ListInsert(s, i, x) ==
    IF i >= Len(s) THEN Append(s, x)
    ELSE SubSeq(s, 1, i) \o <<x>> \o SubSeq(s, i + 1, Len(s))

\* s[start:end] = [] for 0 <= start
ListCut(s, start, end) ==
    IF start >= Len(s) \/ end <= start THEN s
    ELSE SubSeq(s, 1, start) \o SubSeq(s, end + 1, Len(s))

\* LineBuilder.__init__
NewLineBuilder ==
    [kind |-> "LineBuilder", line |-> <<>>, pos |-> 0, prefix_start |-> 0,
     error |-> None]

\* LineBuilder.print with line.insert in both branches.
LbPrintInsert(b, code) ==
    [b EXCEPT !.line = IF b.pos < 0 THEN @ ELSE ListInsert(@, b.pos, Chr(code)),
              !.pos = @ + 1]

\* LineBuilder.print
LbPrint(b, code) ==
    [b EXCEPT !.line = IF b.pos < 0 THEN @
                       ELSE IF b.pos >= Len(@) THEN ListInsert(@, b.pos, Chr(code))
                       ELSE [@ EXCEPT ![b.pos + 1] = Chr(code)],
              !.pos = @ + 1]

\* LineBuilder.ctrl with the LF refused on prefix_start too.
LbCtrlLfInclusive(b, code) ==
    With(IF code = 8
         THEN [b EXCEPT !.pos = IF @ > b.prefix_start THEN @ - 1 ELSE @]
         ELSE b, LAMBDA b1 :
         IF code = 9 THEN LbPrint(b1, code)
         ELSE IF code = 13 THEN [b1 EXCEPT !.pos = b1.prefix_start]
         ELSE IF code = 10
         THEN IF b1.prefix_start <= b1.pos /\ b1.pos < 0
              THEN [b1 EXCEPT !.error = "IndexError: in line prefix"]
              ELSE [b1 EXCEPT !.line = Append(@, Chr(10)), !.pos = @ + 1]
         ELSE b1)

\* LineBuilder.ctrl: the BS is an if of its own, the other codes an elif chain.
LbCtrl(b, code) ==
    With(IF code = 8
         THEN [b EXCEPT !.pos = IF @ > b.prefix_start THEN @ - 1 ELSE @]
         ELSE b, LAMBDA b1 :
         IF code = 9 THEN LbPrint(b1, code)
         ELSE IF code = 13 THEN [b1 EXCEPT !.pos = b1.prefix_start]
         ELSE IF code = 10
         THEN IF b1.prefix_start < b1.pos /\ b1.pos < 0
              THEN [b1 EXCEPT !.error = "IndexError: in line prefix"]
              ELSE [b1 EXCEPT !.line = Append(@, Chr(10)), !.pos = @ + 1]
         ELSE b1)

\* int(param) of a string of digits and semicolons: [ok, n]
IntOf(param) ==
    IF param # <<>> /\ \A i \in DOMAIN param : IsDigit(param[i])
    THEN [ok |-> TRUE, n |-> DigitsToInt(param)]
    ELSE [ok |-> FALSE, n |-> 0]

\* 1 if param == '' else int(param)
Times(param) == IF param = <<>> THEN [ok |-> TRUE, n |-> 1] ELSE IntOf(param)

\* Lines 437-441: the loop of CSI @
RECURSIVE LbInsertBlank(_, _)
LbInsertBlank(b, times) ==
    IF times <= 0 THEN b
    ELSE IF b.pos < 0 THEN [b EXCEPT !.error = "IndexError: in line prefix"]
    ELSE LbInsertBlank([b EXCEPT !.line = ListInsert(@, b.pos, Chr(SPACE))], times - 1)

\* Line 445-446: skip over CSI
RECURSIVE LbSkipForward(_)
LbSkipForward(b) ==
    IF b.pos >= 0 /\ b.pos < Len(b.line) /\ IsTuple(b.line[b.pos + 1])
    THEN LbSkipForward([b EXCEPT !.pos = @ + 1])
    ELSE b

\* Lines 444-450: the loop of CSI C
RECURSIVE LbForward(_, _)
LbForward(b, times) ==
    IF times <= 0 THEN b
    ELSE With(LbSkipForward(b), LAMBDA b1 :
              LbForward([b1 EXCEPT !.line = IF b1.pos >= Len(@)
                                            THEN Append(@, Chr(SPACE)) ELSE @,
                                   !.pos = @ + 1], times - 1))

\* Lines 454-455: skip over CSI; line[pos] raises IndexError at the end of the line
RECURSIVE LbSkipBack(_)
LbSkipBack(b) ==
    IF b.pos <= 0 THEN b
    ELSE IF b.pos >= Len(b.line)
    THEN [b EXCEPT !.error = "IndexError: list index out of range"]
    ELSE IF IsTuple(b.line[b.pos + 1]) THEN LbSkipBack([b EXCEPT !.pos = @ - 1])
    ELSE b

\* Lines 453-457: the loop of CSI D
RECURSIVE LbBack(_, _)
LbBack(b, p) ==
    IF ~(b.pos >= b.prefix_start /\ p # 0) THEN b
    ELSE With(LbSkipBack(b), LAMBDA b1 :
              IF b1.error # None THEN b1
              ELSE LbBack([b1 EXCEPT !.pos = @ - 1], p - 1))

\* Lines 476-480: the loop of CSI X
RECURSIVE LbErase(_, _, _)
LbErase(line, pos, times) ==
    IF ~(times > 0 /\ pos < Len(line)) THEN line
    ELSE LbErase(IF pos >= 0 THEN [line EXCEPT ![pos + 1] = Chr(SPACE)] ELSE line,
                 pos + 1, times - 1)

\* LineBuilder._insert_csi
LbInsertCsi(b, private, param, interm, final) ==
    [b EXCEPT !.line = IF b.pos >= Len(@)
                       THEN ListInsert(@, b.pos, CsiTuple(private, param, interm, final))
                       ELSE [@ EXCEPT ![b.pos + 1] =
                                 CsiTuple(private, param, interm, final)],
              !.pos = @ + 1]

\* LineBuilder.csi; final and interm are the strings the parser hands over.
LbCsi(b, private, param, interm, final, ignore_SGR) ==
    LET t     == Times(param)
        noint == [b EXCEPT !.error = "ValueError"]
    IN  IF final = <<64>> /\ interm = <<>>
        THEN IF t.ok THEN LbInsertBlank(b, t.n) ELSE noint
        ELSE IF final = <<67>>
        THEN IF t.ok THEN LbForward(b, t.n) ELSE noint
        ELSE IF final = <<68>>
        THEN IF t.ok THEN LbBack(b, t.n) ELSE noint
        ELSE IF final = <<75>>
        THEN IF param = <<>> \/ param = <<48>>
             THEN [b EXCEPT !.line = ListCut(@, IF b.pos >= 0 THEN b.pos ELSE 0, Len(@))]
             ELSE [b EXCEPT !.error = "NotImplementedError"]
        ELSE IF final = <<80>>
        THEN IF ~t.ok THEN noint
             ELSE IF b.pos + t.n > 0
             THEN [b EXCEPT !.line = ListCut(@, IF b.pos >= 0 THEN b.pos ELSE 0,
                                             b.pos + t.n)]
             ELSE b
        ELSE IF final = <<88>>
        THEN IF t.ok THEN [b EXCEPT !.line = LbErase(@, b.pos, t.n)] ELSE noint
        ELSE IF final = <<109>>
        THEN IF ~ignore_SGR /\ b.pos >= 0
             THEN LbInsertCsi(b, private, param, interm, final)
             ELSE b
        ELSE b

\* LineBuilder.reset
LbReset(b) == [b EXCEPT !.line = <<>>, !.pos = 0, !.prefix_start = 0]

\* LineBuilder.set_prefix_len
LbSetPrefixLen(b, ptls) == [b EXCEPT !.prefix_start = -ptls]

\* LineBuilder.size
LbSize(b) == Len(b.line)

\* LineBuilder.printable_size
PrintableSize(b) == Cardinality({i \in DOMAIN b.line : ~IsTuple(b.line[i])})


(***************************************************************************)
(* terminal2html.py: HtmlDocumentCreator.write and VT2Html.  The document  *)
(* of a VT2Html object is kept in the object; what the document was made   *)
(* to write after its intro is collected in body, the characters of write  *)
(* as [tag |-> "text", value |-> the string written].  A VT2Html object is *)
(* the parser's output handler, control sequence handler and listener.     *)
(***************************************************************************)
\* HTML_MAP: '&' -> '&amp;', '>' -> '&gt;', '<' -> '&lt;', '"' -> '&quot;'
HTML_MAP(char) ==
    CASE char = 38 -> <<38, 97, 109, 112, 59>>
      [] char = 62 -> <<38, 103, 116, 59>>
      [] char = 60 -> <<38, 108, 116, 59>>
      [] char = 34 -> <<38, 113, 117, 111, 116, 59>>
      [] OTHER     -> <<char>>

\* HtmlDocumentCreator.write
Write(doc, char) ==
    [doc EXCEPT !.written = IF doc.output_suppressed THEN <<>>
                            ELSE <<[tag |-> "text", value |-> HTML_MAP(char)]>>]

\* HtmlDocumentCreator.vim_session
VimSession(doc) ==
    [doc EXCEPT !.written = IF doc.output_suppressed THEN <<>>
                            ELSE <<[tag |-> "vim-session"]>>]

\* VT2Html.__init__
NewVT2Html(doc) ==
    [ kind         |-> "VT2Html",
      command_line |-> NewLineBuilder,
      term_line    |-> NewLineBuilder,
      in_prompt    |-> FALSE,
      in_vim       |-> FALSE,
      prompt_count |-> 0,
      document     |-> doc,
      body         |-> <<>>,
      error        |-> None ]

\* The document after a call, what the call wrote and what it raised.
Doc(h, doc) ==
    [h EXCEPT !.document = doc, !.body = @ \o doc.written, !.error = doc.error]

\* A builder after a call, and what the call raised.
CommandLine(h, b) == [h EXCEPT !.command_line = b, !.error = b.error]

TermLine(h, b) == [h EXCEPT !.term_line = b, !.error = b.error]

\* A step of a method: skipped once a call has raised.
Then(h, step(_)) == IF h.error # None THEN h ELSE step(h)

\* VT2Html.print_cmd_line
RECURSIVE PrintCmdLine(_, _)
PrintCmdLine(h, i) ==
    IF i > Len(h.command_line.line) \/ h.error # None THEN h
    ELSE PrintCmdLine(Doc(h, Write(h.document, h.command_line.line[i].code)), i + 1)

\* VT2Html.print_term_line(self.term_line)
RECURSIVE PrintTermLine(_, _)
PrintTermLine(h, i) ==
    IF i > Len(h.term_line.line) \/ h.error # None THEN h
    ELSE With(h.term_line.line[i], LAMBDA elem :
              PrintTermLine(
                  Doc(h, IF IsTuple(elem)
                         THEN ConvertCsi(h.document, elem.csi[2], Head(elem.csi[4]))
                         ELSE Write(h.document, elem.code)),
                  i + 1))

\* print_term_line(self.term_line); self.term_line.reset()
FlushTermLine(h) ==
    Then(PrintTermLine(h, 1), LAMBDA h1 : TermLine(h1, LbReset(h1.term_line)))

\* VT2Html.print
VT2HtmlPrint(h, code) ==
    IF h.in_prompt THEN CommandLine(h, LbPrint(h.command_line, code))
    ELSE IF h.in_vim THEN h
    ELSE TermLine(h, LbPrint(h.term_line, code))

\* VT2Html.execute
VT2HtmlExecute(h, code) ==
    IF h.in_prompt THEN CommandLine(h, LbCtrl(h.command_line, code))
    ELSE IF h.in_vim THEN h
    ELSE IF code = 10
    THEN Then(TermLine(h, LbCtrl(h.term_line, code)), FlushTermLine)
    ELSE TermLine(h, LbCtrl(h.term_line, code))

\* VT2Html.csi_dispatch
VT2HtmlCsiDispatch(h, private, param, interm, final) ==
    IF final = <<110>> THEN h
    ELSE IF final = <<99>> /\ (param = <<>> \/ param = <<48>>) THEN h
    ELSE IF h.in_prompt
    THEN CommandLine(h, LbCsi(h.command_line, private, param, interm, final, TRUE))
    ELSE IF h.in_vim THEN h
    ELSE TermLine(h, LbCsi(h.term_line, private, param, interm, final, FALSE))

\* VT2Html.prompt_start
VT2HtmlPromptStart(h) ==
    Then(IF LbSize(h.term_line) > 0 THEN FlushTermLine(h) ELSE h, LAMBDA h1 :
         Doc([h1 EXCEPT !.prompt_count = @ + 1], NewCmdBlock(h1.document)))

\* VT2Html.prompt_active
VT2HtmlPromptActive(h) ==
    With(PrintableSize(h.term_line), LAMBDA ptls :
    Then(IF LbSize(h.term_line) > 0 THEN FlushTermLine(h) ELSE h, LAMBDA h1 :
         [Doc(h1, CloseAllSpans([h1.document EXCEPT !.written = <<>>]))
              EXCEPT !.in_prompt = TRUE,
                     !.command_line = LbSetPrefixLen(LbReset(@), ptls)]))

\* VT2Html.prompt_end
VT2HtmlPromptEnd(h) ==
    Then(PrintCmdLine(h, 1), LAMBDA h1 : [h1 EXCEPT !.in_prompt = FALSE])

\* VT2Html.vim_start(self) called with the props of the event: one argument
\* more than the method takes.
VT2HtmlVimStart(h, ev_props) == [h EXCEPT !.error = "TypeError"]

\* VT2Html.vim_end
VT2HtmlVimEnd(h) == Doc([h EXCEPT !.in_vim = FALSE], VimSession(h.document))

\* The handler method that a call c of the parser runs; the escape sequences and
\* the strings are passed over.
HandlerCall(h, c) ==
    IF h.kind # "VT2Html" THEN h
    ELSE CASE c.h = "print"        -> VT2HtmlPrint(h, c.code)
           [] c.h = "execute"      -> VT2HtmlExecute(h, c.code)
           [] c.h = "csi_dispatch" ->
                VT2HtmlCsiDispatch(h, c.private, c.params, c.intermediate, c.final)
           [] OTHER                -> h


(***************************************************************************)
(* terminalparser.py: the events, and the methods TermLogParser overrides. *)
(* An exception is kept in the field error; every later step of the call   *)
(* that raised it is skipped.                                              *)
(***************************************************************************)
Ok(p) == p.error = None

\* props = {} and props = {'height': digits}
Props(height) == [height |-> height]

\* The method of the listener object that an event calls.  The handlers VT2Html
\* gives the reader for the prompt events drive the renderer only.
ListenerCall(l, ev, props) ==
    IF l.kind = "Asciinema2Html"
    THEN CASE ev = "vim_start" -> A2hVimStart(l, props)
           [] ev = "vim_end"   -> A2hVimEnd(l)
           [] OTHER            -> l
    ELSE IF l.kind = "VT2Html"
    THEN CASE ev = "prompt_start"  -> VT2HtmlPromptStart(l)
           [] ev = "prompt_active" -> VT2HtmlPromptActive(l)
           [] ev = "prompt_end"    -> VT2HtmlPromptEnd(l)
           [] ev = "vim_start"     -> VT2HtmlVimStart(l, props)
           [] ev = "vim_end"       -> VT2HtmlVimEnd(l)
    ELSE l

\* The handler object runs the call that VT500Parser's method made last; a
\* parser without a VT2Html object has the handlers that do nothing.
Handle(p) ==
    IF p.cls = "TermLogParser" /\ p.tlp_event_listener.kind = "VT2Html"
    THEN With(HandlerCall(p.tlp_event_listener, Last(p.calls)), LAMBDA l :
              [p EXCEPT !.tlp_event_listener = l, !.error = l.error])
    ELSE p

\* self.tlp_event_listener.<ev>(...), as emit calls it
Notify(p, ev, props) ==
    IF ~Ok(p) THEN p
    ELSE With(ListenerCall(p.tlp_event_listener, ev, props), LAMBDA l :
              [p EXCEPT !.tlp_event_listener = l,
                        !.events = Append(@, [ev |-> ev, props |-> props,
                                              st |-> p.tlp_state,
                                              pos |-> p.line_pos]),
                        !.error = IF l.kind \in {"Asciinema2Html", "VT2Html"}
                                  THEN l.error ELSE None])

\* TermLogParser.emit: the listener methods its chain of ifs calls, in order, when
\* the detector is in the state cur.
EmitCalls(tlp_state, cur) ==
    CASE tlp_state = "PROMPT_OSC" ->
           (IF cur \in VimStates THEN <<"vim_end">> ELSE <<>>) \o <<"prompt_start">>
      [] tlp_state = "PROMPT_IMMINENT" -> <<"prompt_start">>
      [] tlp_state = "PROMPT" -> <<"prompt_active">>
      [] tlp_state = "VIM_START" -> <<"vim_start">>
      [] tlp_state = "NORMAL" ->
           IF cur = "PROMPT" THEN <<"prompt_end">>
           ELSE IF cur \in VimStates THEN <<"vim_end">>
           ELSE <<>>
      [] OTHER -> <<>>

\* The calls of emit made one after the other; only vim_start is handed props.
RECURSIVE NotifyAll(_, _, _)
NotifyAll(p, evs, props) ==
    IF evs = <<>> THEN p
    ELSE NotifyAll(Notify(p, Head(evs), IF Head(evs) = "vim_start" THEN props ELSE None),
                   Tail(evs), props)

\* TermLogParser.emit
Emit(p, tlp_state, props) == NotifyAll(p, EmitCalls(tlp_state, p.tlp_state), props)

\* self.tlp_state = tlp_state
SetTlpState(p, tlp_state) == IF Ok(p) THEN [p EXCEPT !.tlp_state = tlp_state] ELSE p

\* self.emit(tlp_state); self.tlp_state = tlp_state
EmitAndEnter(p, tlp_state) == SetTlpState(Emit(p, tlp_state, None), tlp_state)

\* self.app_mode.input(code, self.line_pos) with its result dropped
AppModeFeed(p, code) ==
    [p EXCEPT !.app_mode = AppModeInput(p.app_mode, code, p.line_pos).am]

\* TermLogParser.esc_dispatch
TlpEscDispatch(p, code) ==
    With(VtEscDispatch(p, code), LAMBDA q :
         IF q.final_char = <<61>> THEN AppModeFeed(q, "DECKPAM")
         ELSE IF q.final_char = <<62>>
         THEN With(AppModeInput(q.app_mode, "DECKPNM", q.line_pos), LAMBDA x :
              With([q EXCEPT !.app_mode = x.am], LAMBDA r :
                   IF /\ x.event = "exit"
                      /\ r.tlp_state \notin VimStates
                      /\ RePromptInline(r.line, r.line_pos + 1)
                   THEN EmitAndEnter(r, "PROMPT_IMMINENT")
                   ELSE r))
         ELSE q)

\* TermLogParser.csi_dispatch
TlpCsiDispatch(p, code) ==
    With(Handle(VtCsiDispatch(p, code)), LAMBDA q :
         LET seq == <<q.final_char, q.parameter_string, q.private_flag,
                      q.intermediate_char>>
         IN
         IF ~Ok(q) THEN q
         ELSE IF seq = << <<116>>, <<50, 51, 59, 48, 59, 48>>, <<>>, <<>> >>
         THEN IF q.vim_2200_seen /\ q.tlp_state \in VimStates
              THEN With(EmitAndEnter(q, "NORMAL"), LAMBDA r1 :
                   With(IF Ok(r1) /\ RePromptPostVim(r1.line, r1.line_pos + 1)
                        THEN EmitAndEnter(r1, "PROMPT_IMMINENT")
                        ELSE r1, LAMBDA r2 :
                        IF Ok(r2)
                        THEN [r2 EXCEPT !.next_vim = Find(r2.line, VIM_START, r2.line_pos)]
                        ELSE r2))
              ELSE q
         ELSE IF seq = << <<104>>, <<49>>, <<63>>, <<>> >> THEN AppModeFeed(q, "DECCKM-S")
         ELSE IF seq = << <<108>>, <<49>>, <<63>>, <<>> >> THEN AppModeFeed(q, "DECCKM-R")
         ELSE q)

\* TermLogParser.osc_start
TlpOscStart(p) == [VtOscStart(p) EXCEPT !.osc_string = <<>>]

\* TermLogParser.osc_put
TlpOscPut(p, code) == [VtOscPut(p, code) EXCEPT !.osc_string = Append(@, code)]

\* TermLogParser.osc_end: an OSC string that starts with "0;" sets the title.
TlpOscEnd(p) ==
    With(VtOscEnd(p), LAMBDA q :
         IF StartsWithAt(q.osc_string, 0, <<48, 59>>)
         THEN EmitAndEnter(q, "PROMPT_OSC")
         ELSE q)

(***************************************************************************)
(* vtparser.py: perform_action, transition_to, input.  The statistics      *)
(* dictionaries are written and never read; they are left out.             *)
(***************************************************************************)
\* getattr(self, action.value)(code): TermLogParser overrides five methods.
Method(p, action, code) ==
    LET tlp == p.cls = "TermLogParser"
    IN  CASE action = "ignore"       -> p
          [] action = "print"        -> Handle(VtPrint(p, code))
          [] action = "execute"      -> Handle(VtExecute(p, code))
          [] action = "clear"        -> VtClear(p)
          [] action = "collect"      -> VtCollect(p, code)
          [] action = "param"        -> VtParam(p, code)
          [] action = "esc_dispatch" -> IF tlp THEN TlpEscDispatch(p, code)
                                               ELSE VtEscDispatch(p, code)
          [] action = "csi_dispatch" -> IF tlp THEN TlpCsiDispatch(p, code)
                                               ELSE VtCsiDispatch(p, code)
          [] action = "hook"         -> VtHook(p, code)
          [] action = "put"          -> VtPut(p, code)
          [] action = "unhook"       -> VtUnhook(p)
          [] action = "osc_start"    -> IF tlp THEN TlpOscStart(p) ELSE VtOscStart(p)
          [] action = "osc_put"      -> IF tlp THEN TlpOscPut(p, code) ELSE VtOscPut(p, code)
          [] action = "osc_end"      -> IF tlp THEN TlpOscEnd(p) ELSE VtOscEnd(p)

\* VT500Parser.perform_action
PerformAction(p, action, code) ==
    IF action = None \/ ~Ok(p) THEN p
    ELSE Method([p EXCEPT !.acts = Append(@, [act |-> action, st |-> p.state])],
                action, code)

\* VT500Parser.transition_to
TransitionTo(p, new_state) ==
    IF ~Ok(p) THEN p
    ELSE [p EXCEPT !.state = new_state,
                   !.acts = Append(@, [act |-> "transition_to", st |-> new_state])]

\* VT500Parser.input with the entry action run before the state is left.
InputEntryFirst(p, code) ==
    LET p0 == [p EXCEPT !.acts = <<>>, !.calls = <<>>]
        ev == Event(p.state, code)
    IN  IF ev.state # None
        THEN With(PerformAction(p0, EntryAction(ev.state), code), LAMBDA p1 :
             With(PerformAction(p1, ExitAction(p1.state), code), LAMBDA p2 :
             With(PerformAction(p2, ev.action, code), LAMBDA p3 :
                  TransitionTo(p3, ev.state))))
        ELSE PerformAction(p0, ev.action, code)

\* VT500Parser.input
Input(p, code) ==
    LET p0 == [p EXCEPT !.acts = <<>>, !.calls = <<>>]
        ev == Event(p.state, code)
    IN  IF ~Ok(p) THEN p
        ELSE IF ev = Unmapped THEN [p0 EXCEPT !.error = "NotImplementedError"]
        ELSE IF ev.state # None
        THEN With(PerformAction(p0, ExitAction(p.state), code), LAMBDA p1 :
             With(PerformAction(p1, ev.action, code), LAMBDA p2 :
             With(TransitionTo(p2, ev.state), LAMBDA p3 :
                  PerformAction(p3, EntryAction(p3.state), code))))
        ELSE PerformAction(p0, ev.action, code)


(***************************************************************************)
(* terminalparser.py: TermLogParser.parse                                  *)
(***************************************************************************)
\* self.osc_string.endswith(cwd[1:]) or cwd == '~'
CwdMatchesOsc(p, cwd) == EndsWith(p.osc_string, Slice(cwd, 1)) \/ cwd = <<126>>

\* Lines 109-136: what the state the previous line left decides before the new
\* line is looked at byte by byte.
ParseLineStart(p) ==
    CASE p.tlp_state = "PROMPT_OSC" ->
           With(RePromptHeader(p.line), LAMBDA match :
                IF match.ok /\ CwdMatchesOsc(p, match.cwd)
                THEN SetTlpState(p, "PROMPT_IMMINENT")
                ELSE p)
      [] p.tlp_state = "PROMPT" -> EmitAndEnter(p, "NORMAL")
      [] p.tlp_state = "VIM_START" ->
           IF ReVimEnd1(p.line) \/ ReVimEnd2(p.line)
           THEN EmitAndEnter(p, "VIM_ENDING")
           ELSE p
      [] p.tlp_state = "VIM_ENDING" -> EmitAndEnter(p, "NORMAL")
      [] OTHER -> p

\* Lines 138-141
ParsePromptLinestart(p) ==
    IF Ok(p) /\ p.tlp_state = "NORMAL" /\ RePromptLinestart(p.line)
    THEN EmitAndEnter(p, "PROMPT_IMMINENT")
    ELSE p

\* Lines 185-196 and 247-258: the state after a vim_start.
VimStateFor(line) ==
    With(Tail70(line), LAMBDA tail :
         IF ReVimEnd1(tail) \/ ReVimEnd2(tail) THEN "VIM_SESSION_ONELINE" ELSE "VIM_START")

\* self.emit(self.STATE_VIM_START, props) and the state that follows
EnterVim(p, props) == SetTlpState(Emit(p, "VIM_START", props), VimStateFor(p.line))

\* Lines 164-179 and 227-242: RE_VIM_START_1, else RE_VIM_START_2, on the bytes s;
\* the flag vim_2200_seen, the props and whether one of the two matched.
VimStartMatch(s) ==
    With(ReVimStart1(s), LAMBDA match1 :
         IF match1.ok
         THEN [seen |-> TRUE, props |-> Props(match1.height), ok |-> TRUE]
         ELSE With(ReVimStart2(s), LAMBDA match2 :
                   [seen |-> FALSE,
                    props |-> Props(IF match2.ok THEN match2.height ELSE NoHeight),
                    ok |-> match2.ok]))

\* Lines 155-199
ParseVimStart(p) ==
    IF ~Ok(p) \/ p.tlp_state \in VimStates THEN p
    ELSE With(VimStartMatch(p.line), LAMBDA m :
         With([p EXCEPT !.vim_2200_seen = m.seen], LAMBDA q :
              IF ReVimStart0(p.line) \/ m.ok THEN EnterVim(q, m.props) ELSE q))

\* Lines 206-258 with the '$' taken for the prompt in whatever state it arrives.
ParseBeforeInputAnyDollar(p, c) ==
    IF c = 36 THEN EmitAndEnter(p, "PROMPT") ELSE p

\* Lines 206-258: what one turn of the loop does before it feeds the byte c.
ParseBeforeInput(p, c) ==
    IF p.tlp_state = "PROMPT_OSC"
    THEN With(RePrompt(p.line, p.line_pos), LAMBDA match :
              IF match.ok /\ CwdMatchesOsc(p, match.cwd)
              THEN SetTlpState(p, "PROMPT_IMMINENT")
              ELSE p)
    ELSE IF p.tlp_state = "PROMPT_IMMINENT" /\ c = 36
    THEN EmitAndEnter(p, "PROMPT")
    ELSE IF p.next_vim > 0 /\ p.line_pos = p.next_vim
    THEN IF StartsWithAt(p.line, p.line_pos, VIM_START)
         THEN With(VimStartMatch(Slice(p.line, p.line_pos)), LAMBDA m :
                   EnterVim([p EXCEPT !.vim_2200_seen = m.seen], m.props))
         ELSE EnterVim(p, Props(NoHeight))
    ELSE p

\* Lines 203-261: one turn of the loop, which feeds the byte c and moves on.
ParseTurn(p, c) ==
    With(Input(ParseBeforeInput(p, c), c), LAMBDA q :
         IF Ok(q) THEN [q EXCEPT !.line_pos = @ + 1] ELSE q)

\* Lines 203-261: the turns of the loop for the bytes at the offsets lo..hi-1, in
\* order, up to the turn that raises: the turns of the first half of the range,
\* then those of the second half.
RECURSIVE ParseLoop(_, _, _)
ParseLoop(p, lo, hi) ==
    IF hi <= lo THEN p
    ELSE IF hi = lo + 1 THEN (IF Ok(p) THEN ParseTurn(p, At(p.line, lo)) ELSE p)
    ELSE With(ParseLoop(p, lo, (lo + hi) \div 2), LAMBDA q :
              ParseLoop(q, (lo + hi) \div 2, hi))

\* TermLogParser.parse
Parse(p, line) ==
    With(ParseVimStart(ParsePromptLinestart(ParseLineStart([p EXCEPT !.line = line]))),
         LAMBDA p2 : IF Ok(p2) THEN ParseLoop([p2 EXCEPT !.line_pos = 0], 0, Len(line))
                     ELSE p2)

\* The parser as parse has it when the bytes before position k of line are input.
ParsedUpTo(p, line, k) ==
    With(ParseVimStart(ParsePromptLinestart(ParseLineStart(
             [p EXCEPT !.line = line, !.events = <<>>]))),
         LAMBDA p2 : ParseLoop([p2 EXCEPT !.line_pos = 0], 0, k))

(***************************************************************************)
(* asciinema2html.py: Asciinema2Html.parse.  The reader is the parser's    *)
(* listener; the handlers it gives the parser for print, execute and the   *)
(* dispatches drive the renderer only.                                     *)
(***************************************************************************)
\* Lines 286-301: the frame is recorded, dropped or buffered.
A2hTakeFrame(r, frame) ==
    IF r.in_vim
    THEN IF r.capturing_vim
         THEN IF VimEndsInFrameLine(frame.payload)
              THEN [r EXCEPT !.capturing_vim = FALSE]
              ELSE [r EXCEPT !.vimrecording = VimRecordingAdd(@, frame)]
         ELSE r
    ELSE [r EXCEPT !.framebuffer = Append(@, frame)]

\* Lines 303-308, one 0x0A at a time: the bytes up to the first 0x0A of termline
\* are appended to byteline and the line is parsed and cleared; the bytes after
\* the last 0x0A stay in byteline.  x is the pair of reader and parser, with
\* the bytes of the lines that parser.parse took and returned from in fed.  The
\* parser keeps the bytearray itself as its line, so clearing byteline clears
\* parser.line too.
RECURSIVE A2hFeed(_, _)
A2hFeed(x, termline) ==
    IF x.r.error # None THEN x
    ELSE LET k  == Find(termline, <<10>>, 0)
             r1 == [x.r EXCEPT !.byteline = @ \o SubSeq(termline, 1, k + 1)]
         IN  IF k < 0 THEN [x EXCEPT !.r.byteline = @ \o termline]
             ELSE With(Parse([x.p EXCEPT !.tlp_event_listener = r1], r1.byteline),
                       LAMBDA p1 :
                  A2hFeed([r |-> IF Ok(p1)
                                 THEN [p1.tlp_event_listener EXCEPT
                                         !.byteline = <<>>, !.framebuffer = <<>>]
                                 ELSE [p1.tlp_event_listener EXCEPT !.error = p1.error],
                           p |-> [p1 EXCEPT
                                    !.tlp_event_listener = x.p.tlp_event_listener,
                                    !.line = IF Ok(p1) THEN <<>> ELSE @],
                           fed |-> IF Ok(p1) THEN x.fed \o r1.byteline ELSE x.fed],
                          Slice(termline, k + 1)))

\* Asciinema2Html.parse
A2hParse(r, p, frame) ==
    A2hFeed([r |-> A2hTakeFrame(r, frame), p |-> p, fed |-> <<>>], frame.payload)


(***************************************************************************)
(* Values of the variables a specification does not use.                   *)
(***************************************************************************)
NoProbe == [state |-> "ground", code |-> 0, applied |-> FALSE,
            action |-> None, next |-> None]

NoReader == [kind |-> "None"]

NoHist == [n |-> 0]

NoTwebber == [kind |-> "None"]

NoDocument == [kind |-> "None"]

NoBuilder == [kind |-> "None"]

(***************************************************************************)
(* SpecEvent: State.event applied to every state and every code.           *)
(***************************************************************************)
InitEvent ==
    /\ builder = NoBuilder
    /\ twebber = NoTwebber
    /\ document = NoDocument
    /\ probe \in [state : States, code : 0..255, applied : {FALSE},
                  action : {None}, next : {None}]
    /\ parser = NewVT500Parser
    /\ reader = NoReader
    /\ hist = NoHist

\* action, new_state = State.get(state).event(code)
ApplyEvent ==
    /\ ~probe.applied
    /\ probe' = [probe EXCEPT !.applied = TRUE,
                              !.action = Event(probe.state, probe.code).action,
                              !.next = Event(probe.state, probe.code).state]
    /\ UNCHANGED <<builder, parser, reader, twebber, document, hist>>

NextEvent == ApplyEvent

SpecEvent == InitEvent /\ [][NextEvent]_vars

\* What the table of global transitions gives for a code, or Unmapped for a code
\* the table does not list.
GlobalTransition(code) ==
    IF code \in {\H18, \H1A} THEN [action |-> "execute", state |-> "ground"]
    ELSE IF code = \H1B THEN [action |-> None, state |-> "escape"]
    ELSE IF code \in (\H80..\H8F) \cup (\H91..\H97) \cup {\H99, \H9A}
         THEN [action |-> "execute", state |-> "ground"]
    ELSE IF code = \H9C THEN [action |-> None, state |-> "ground"]
    ELSE IF code \in {\H98, \H9E, \H9F} THEN [action |-> None, state |-> "sos_pm_apc_string"]
    ELSE IF code = \H90 THEN [action |-> None, state |-> "dcs_entry"]
    ELSE IF code = \H9B THEN [action |-> None, state |-> "csi_entry"]
    ELSE IF code = \H9D THEN [action |-> None, state |-> "osc_string"]
    ELSE Unmapped

\* C1: in each of the 14 states, a code of the table of global transitions gets
\* the action and the next state of the table, whatever the state maps itself.
C1_GlobalTransitionsWin ==
    (probe.applied /\ GlobalTransition(probe.code) # Unmapped)
        => /\ probe.action = GlobalTransition(probe.code).action
           /\ probe.next = GlobalTransition(probe.code).state

\* C1 witness: ST looked up in osc_string, a state with a table of its own.
C1_Witness ==
    /\ probe.applied
    /\ probe.state = "osc_string"
    /\ probe.code = \H9C
    /\ probe.action = None
    /\ probe.next = "ground"

\* C2: for every state and every code b in A0..FF, event(b) is the (action, next
\* state) pair of event(b - 0x80).
C2_GRAliasesGL ==
    (probe.applied /\ probe.code \in \HA0..\HFF)
        => /\ probe.action = Event(probe.state, probe.code - \H80).action
           /\ probe.next = Event(probe.state, probe.code - \H80).state

\* C2 witness: 0xDB in escape is looked up as '[' and opens a control sequence.
C2_Witness ==
    /\ probe.applied
    /\ probe.state = "escape"
    /\ probe.code = \HDB
    /\ probe.next = "csi_entry"


\* C35: State.event finds an entry for every state and every byte 00-FF, so that
\* input never raises NotImplementedError for an input without a mapping.
C35_EveryByteMapped ==
    probe.applied => probe.action # Unmapped.action

\* C35 witness: the lookup of FF in dcs_ignore, which no single key and only the
\* GL twin 7F in the range 20-7F maps.
C35_Witness ==
    /\ probe.applied
    /\ probe.state = "dcs_ignore" /\ probe.code = \HFF
    /\ probe.action = "ignore" /\ probe.next = None


(***************************************************************************)
(* SpecVT: a VT500Parser fed one byte at a time, starting from ground.     *)
(***************************************************************************)
MaxInput == 4

\* BEL, CAN, ESC, an intermediate, a digit, ':', '?', a final byte, 'P', 'X',
\* '[', ']', DEL, a C1 control that is executed, DCS, SOS, CSI, ST, OSC, and
\* the GR twin of '['.
Codes ==
    { \H07, \H18, \H1B, \H20, \H30, \H3A, \H3F, \H41, \H50, \H58, \H5B, \H5D,
      \H7F, \H85, \H90, \H98, \H9B, \H9C, \H9D, \HDB }

EntryStates == {"escape", "csi_entry", "dcs_entry"}

\* The input that was just fed made the parser enter one of EntryStates.
Entered(p) ==
    \E i \in DOMAIN p.acts : p.acts[i].act = "transition_to" /\ p.acts[i].st \in EntryStates

\* The sequence that is open after the byte b, when the sequence k was open before
\* it, read off the wording of the claim on well-terminated input: ESC, CSI, DCS
\* and OSC open a sequence; a final byte closes an escape or a control sequence,
\* ST, CAN and SUB close any sequence, BEL closes an OSC string.  With strings
\* set, SOS, PM and APC open a string of their own and the C1 controls that are
\* executed close any sequence.
SequenceOpen(k, b, strings) ==
    LET c == IF \HA0 <= b /\ b <= \HFF THEN b - \H80 ELSE b
    IN  IF b \in {\H18, \H1A, \H9C} THEN "none"
        ELSE IF b = \H1B THEN "esc"
        ELSE IF b = \H9B THEN "csi"
        ELSE IF b = \H90 THEN "dcs"
        ELSE IF b = \H9D THEN "osc"
        ELSE IF b \in \H80..\H9F
             THEN IF ~strings THEN k
                  ELSE IF b \in {\H98, \H9E, \H9F} THEN "sos" ELSE "none"
        ELSE IF k = "esc" /\ c = \H5B THEN "csi"
        ELSE IF k = "esc" /\ c = \H50 THEN "dcs"
        ELSE IF k = "esc" /\ c = \H5D THEN "osc"
        ELSE IF k = "esc" /\ c \in {\H58, \H5E, \H5F} /\ strings THEN "sos"
        ELSE IF k = "esc" /\ c \in \H20..\H2F THEN "esc_intermediate"
        ELSE IF k \in {"esc", "esc_intermediate"} /\ c \in \H30..\H7E THEN "none"
        ELSE IF k = "csi" /\ c \in \H40..\H7E THEN "none"
        ELSE IF k = "osc" /\ b = \H07 THEN "none"
        ELSE k

\* The hook and unhook actions among acts, in order
HookActs(acts) ==
    LET IsHook(a) == a.act \in {"hook", "unhook"}
        sel == SelectSeq(acts, IsHook)
    IN  [i \in DOMAIN sel |-> sel[i].act]

InitVT ==
    /\ builder = NoBuilder
    /\ twebber = NoTwebber
    /\ document = NoDocument
    /\ probe = NoProbe
    /\ parser = NewVT500Parser
    /\ reader = NoReader
    /\ hist = [ n       |-> 0,          \* bytes fed
                prev    |-> "ground",   \* the state the latest byte was fed in
                code    |-> 0,          \* the latest byte
                entered |-> FALSE,      \* one of EntryStates was entered
                since   |-> <<>>,       \* the bytes fed since the latest such entry
                claimed |-> "none",     \* SequenceOpen without the strings
                open    |-> "none",     \* SequenceOpen with the strings
                dcs     |-> <<>> ]      \* the hook and unhook actions so far

\* parser.input(b)
VTInput ==
    \E b \in Codes :
        /\ hist.n < MaxInput
        /\ Ok(parser)
        /\ parser' = Input(parser, b)
        /\ hist' = [ n       |-> hist.n + 1,
                     prev    |-> parser.state,
                     code    |-> b,
                     entered |-> hist.entered \/ Entered(parser'),
                     since   |-> IF Entered(parser') THEN <<>> ELSE Append(hist.since, b),
                     claimed |-> SequenceOpen(hist.claimed, b, FALSE),
                     open    |-> SequenceOpen(hist.open, b, TRUE),
                     dcs     |-> hist.dcs \o HookActs(parser'.acts) ]
        /\ UNCHANGED <<builder, probe, reader, twebber, document>>

NextVT == VTInput

SpecVT == InitVT /\ [][NextVT]_vars

\* <<x>> when x is an action, <<>> when it is None
Opt(act, st) == IF act = None THEN <<>> ELSE << [act |-> act, st |-> st] >>

\* C3: a byte that changes the state runs the exit action of the state it was
\* fed in, then the transition action, then sets the state, then runs the entry
\* action of the new state; 0x9D in osc_string runs osc_end before osc_start; a
\* byte that maps to an action alone runs that action and leaves the state.
C3_InputOrder ==
    LET ev == Event(hist.prev, hist.code)
    IN  hist.n > 0 =>
          /\ ev.state # None =>
               /\ parser.acts = Opt(ExitAction(hist.prev), hist.prev)
                                  \o Opt(ev.action, hist.prev)
                                  \o << [act |-> "transition_to", st |-> ev.state] >>
                                  \o Opt(EntryAction(ev.state), ev.state)
               /\ parser.state = ev.state
          /\ ev.state = None =>
               /\ parser.acts = Opt(ev.action, hist.prev)
               /\ parser.state = hist.prev
          /\ (hist.prev = "osc_string" /\ hist.code = \H9D) =>
               /\ parser.acts = << [act |-> "osc_end", st |-> "osc_string"],
                                   [act |-> "transition_to", st |-> "osc_string"],
                                   [act |-> "osc_start", st |-> "osc_string"] >>
               /\ parser.calls = << [h |-> "osc_end_of_data"], [h |-> "osc_start"] >>

\* C3 witness: OSC received inside an OSC string that holds a byte already.
C3_Witness ==
    /\ hist.n = 3
    /\ hist.prev = "osc_string"
    /\ hist.code = \H9D
    /\ parser.state = "osc_string"
    /\ parser.operating_system_command = <<>>

\* C4 as stated: the parser is in ground exactly when no escape, control, device
\* control or OSC sequence that the input started is left open.
C4_GroundIffTerminated == (parser.state = "ground") <=> (hist.claimed = "none")

\* C4 amended: SOS, PM and APC strings count as sequences too, and a C1 control
\* that is executed (80-8F, 91-97, 99, 9A) closes the sequence it arrives in.
C4_GroundIffNothingOpen == (parser.state = "ground") <=> (hist.open = "none")

\* C4 witness: a control sequence was opened and closed, and a later OSC string
\* is still open.
C4_Witness ==
    /\ hist.n = 4
    /\ hist.open = "osc"
    /\ parser.state = "osc_string"
    /\ \E i \in DOMAIN hist.since : hist.since[i] = \H41

\* The bytes of a occur in b, in the order they have in a.
RECURSIVE IsSubseq(_, _)
IsSubseq(a, b) ==
    IF a = <<>> THEN TRUE
    ELSE IF b = <<>> THEN FALSE
    ELSE IF Head(a) = Head(b) THEN IsSubseq(Tail(a), Tail(b))
    ELSE IsSubseq(a, Tail(b))

\* C5: right after the parser enters escape, csi_entry or dcs_entry, from any
\* state, private_flag, intermediate_char, parameter_string and final_char are
\* empty; what esc_dispatch, csi_dispatch and hook hand on is made of bytes fed
\* since the latest such entry, closed by the byte that dispatches.
C5_ContextClearedOnEntry ==
    /\ Entered(parser) =>
         /\ parser.private_flag = <<>>
         /\ parser.intermediate_char = <<>>
         /\ parser.parameter_string = <<>>
         /\ parser.final_char = <<>>
    /\ \A i \in DOMAIN parser.calls :
         parser.calls[i].h \in {"esc_dispatch", "csi_dispatch", "hook"} =>
           /\ hist.entered
           /\ hist.since # <<>>
           /\ IsSubseq(parser.calls[i].private, Front(hist.since))
           /\ IsSubseq(parser.calls[i].params, Front(hist.since))
           /\ IsSubseq(parser.calls[i].intermediate, Front(hist.since))
           /\ parser.calls[i].final = <<Last(hist.since)>>

\* C5 witness: CSI arrives while the parameters of a control sequence are being
\* collected, and the parser is in csi_entry again.
C5_Witness ==
    /\ Entered(parser)
    /\ hist.prev = "csi_param"
    /\ parser.state = "csi_entry"
    /\ parser.parameter_string = <<>>


\* C34: hook runs only on entry to dcs_passthrough, put runs only in
\* dcs_passthrough, and the hooks and unhooks alternate: an unhook follows every
\* hook before the next hook, and no unhook comes without its hook.
C34_HookPutUnhook ==
    /\ \A i \in DOMAIN parser.acts :
          parser.acts[i].act \in {"hook", "put"} => parser.acts[i].st = "dcs_passthrough"
    /\ \A i \in DOMAIN hist.dcs :
          /\ hist.dcs[i] = "hook" => (i = Len(hist.dcs) \/ hist.dcs[i + 1] = "unhook")
          /\ hist.dcs[i] = "unhook" => (i > 1 /\ hist.dcs[i - 1] = "hook")


(***************************************************************************)
(* SpecTLP: a TermLogParser with the default listener, fed whole lines as  *)
(* the module-level parse of terminalparser.py feeds them.                 *)
(***************************************************************************)
MaxLines == 4

LF == <<10>>

\* ESC ] 0 ; / t BEL, a window title that ends in "/t"
OscTitle == <<27, 93, 48, 59, 47, 116, 7>>

\* "a:~$ "
ShortPrompt == <<97, 58, 126, 36, 32>>

LineTitle == OscTitle \o LF

\* "a@b MINGW64 ~/t"
LineHeader == <<97, 64, 98, 32>> \o MINGW64 \o <<32, 126, 47, 116>> \o LF

\* "$ x"
LineDollar == <<36, 32, 120>> \o LF

\* "a:~$ x"
LinePrompt == ShortPrompt \o <<120>> \o LF

\* a prompt and, on the same line, a window title
LinePromptTitle == ShortPrompt \o OscTitle \o LF

\* a window title and, on the same line, the prompt "a:/t$ "
LineTitlePrompt == OscTitle \o <<97, 58, 47, 116, 36, 32>> \o LF

LineText == <<120>> \o LF

\* "a:~$ git $x": a prompt, and a second '$' at offset 9
LinePromptDollar == ShortPrompt \o <<103, 105, 116, 32, 36, 120>> \o LF

LineVim1 == CSI_22_0_0_t \o CSI_22_2_t_22_1_t \o LF

\* ESC [ 1 ; 2 4 r and the cursor query
LineVim2 == <<27, 91, 49, 59, 50, 52, 114>> \o VIM_CURSOR_QUERY \o LF

LineHint == VIM_START \o LF

LineVimEnd == CSI_23_0_0_t \o LF

LineVimEnd2 == CKM_RESET_KPNM \o LF

\* the end of one editor session and the hint of the next on one line
LineVimAgain == CSI_23_0_0_t \o VIM_START \o LF

\* ESC [ ? 1 h ESC = (application mode on), ESC [ ? 1 l ESC > (off), a prompt
LineKeypad ==
    <<27, 91, 63, 49, 104, 27, 61>> \o CKM_RESET_KPNM \o ShortPrompt \o LF

\* the start and the end of an editor session on one line, the end as
\* ESC [ 23;0;0 t and as ESC [ ? 1 l ESC >
LineVimBoth == CSI_22_0_0_t \o CSI_22_2_t_22_1_t \o CSI_23_0_0_t \o LF

LineVimBoth2 == CSI_22_0_0_t \o CSI_22_2_t_22_1_t \o CKM_RESET_KPNM \o LF

\* ESC [ ? 1 h ESC = : application mode on
LineAppOn == <<27, 91, 63, 49, 104, 27, 61>> \o LF

\* "xxxxx" ESC > : the '>' at offset 6, no ESC [ ? 1 l before it
LineKpnmLate == <<120, 120, 120, 120, 120, 27, 62>> \o LF

Lines ==
    { LineTitle, LineHeader, LineDollar, LinePrompt, LinePromptTitle,
      LineTitlePrompt, LineText, LinePromptDollar, LineVim1, LineVim2, LineHint,
      LineVimEnd, LineVimEnd2, LineVimAgain, LineKeypad, LineAppOn, LineKpnmLate,
      LineVimBoth, LineVimBoth2 }

InitTLP ==
    /\ builder = NoBuilder
    /\ twebber = NoTwebber
    /\ document = NoDocument
    /\ probe = NoProbe
    /\ parser = NewTermLogParser
    /\ reader = NoReader
    /\ hist = [ n     |-> 0,      \* lines fed
                trace |-> <<>>,   \* the listener calls so far: [ev, props, st, pos]
                start |-> 0 ]     \* the calls of the latest line made before its loop

\* parser.parse(line)
TLPParse ==
    \E line \in Lines :
        /\ hist.n < MaxLines
        /\ Ok(parser)
        /\ parser' = Parse([parser EXCEPT !.events = <<>>], line)
        /\ hist' = [n |-> hist.n + 1, trace |-> hist.trace \o parser'.events,
                    start |-> Len(ParsedUpTo(parser, line, 0).events)]
        /\ UNCHANGED <<builder, probe, reader, twebber, document>>

NextTLP == TLPParse

SpecTLP == InitTLP /\ [][NextTLP]_vars


\* The event at index i of the trace is ev.
Is(i, ev) == hist.trace[i].ev = ev

\* The latest index before i at which the trace has one of the events evs, or 0.
Latest(i, evs) == Max({0} \cup {j \in 1..(i - 1) : hist.trace[j].ev \in evs})

\* The vim_start events of the first n events that no vim_end has matched.
RECURSIVE UnmatchedVimStarts(_)
UnmatchedVimStarts(n) ==
    IF n = 0 THEN 0
    ELSE IF Is(n, "vim_start") THEN UnmatchedVimStarts(n - 1) + 1
    ELSE IF Is(n, "vim_end") /\ UnmatchedVimStarts(n - 1) > 0
         THEN UnmatchedVimStarts(n - 1) - 1
    ELSE UnmatchedVimStarts(n - 1)

\* C6: every prompt_active has a prompt_start before it with no prompt_active
\* between the two, and every prompt_end has a prompt_active before it with no
\* prompt_end between the two.
C6_PromptOrder ==
    \A i \in DOMAIN hist.trace :
        /\ Is(i, "prompt_active") =>
             /\ Latest(i, {"prompt_start"}) > 0
             /\ Latest(i, {"prompt_active"}) < Latest(i, {"prompt_start"})
        /\ Is(i, "prompt_end") =>
             /\ Latest(i, {"prompt_active"}) > 0
             /\ Latest(i, {"prompt_end"}) < Latest(i, {"prompt_active"})

\* C6 witness: a title, a header and a '$' line gave prompt_start and
\* prompt_active, and the line after them prompt_end.
C6_Witness ==
    /\ hist.n = 4
    /\ Len(hist.trace) = 3
    /\ Is(1, "prompt_start") /\ hist.trace[1].st = "NORMAL"
    /\ Is(2, "prompt_active")
    /\ Is(3, "prompt_end")
    /\ parser.line = LineText

\* C7: the event that follows a prompt_active is prompt_end, whatever the bytes
\* of the prompt line are (every event of the trace is a prompt or a vim event).
C7_PromptEndFollowsActive ==
    \A i \in DOMAIN hist.trace :
        (Is(i, "prompt_active") /\ i < Len(hist.trace)) => Is(i + 1, "prompt_end")

\* C8: a prompt_start emitted in a vim state comes right after a vim_end, and no
\* prompt_start is emitted while a vim_start is unmatched by a vim_end.
C8_VimEndBeforePromptStart ==
    \A i \in DOMAIN hist.trace :
        Is(i, "prompt_start") =>
            /\ hist.trace[i].st \in VimStates => (i > 1 /\ Is(i - 1, "vim_end"))
            /\ UnmatchedVimStarts(i - 1) = 0

\* C9: vim_start and vim_end alternate, and the first of them is a vim_start.
C9_VimAlternates ==
    \A i \in DOMAIN hist.trace :
        LET j == Latest(i, {"vim_start", "vim_end"})
        IN  /\ Is(i, "vim_start") => (j = 0 \/ Is(j, "vim_end"))
            /\ Is(i, "vim_end") => (j > 0 /\ Is(j, "vim_start"))


\* The byte at position k of line is the 't' of a CSI 23;0;0 t.
Completes23(line, k) == StartsWithAt(line, k - 8, CSI_23_0_0_t)

\* The dispatch of the sequence found the detector in a vim state, emitted
\* vim_end and left the detector in no vim state.
EndsVim(pre, post) ==
    pre.tlp_state \in VimStates =>
        /\ \E i \in (Len(pre.events) + 1)..Len(post.events) : post.events[i].ev = "vim_end"
        /\ post.tlp_state \notin VimStates

\* C30: a CSI 23;0;0 t dispatched while the detector is in VIM_START,
\* VIM_SESSION_ONELINE or VIM_ENDING makes it emit vim_end and leave the vim
\* states, whichever pattern started the session.
C30_Csi23EndsVim ==
    \A line \in Lines : \A k \in 0..(Len(line) - 1) :
        Completes23(line, k) =>
            With(ParsedUpTo(parser, line, k), LAMBDA pre :
                 EndsVim(pre, ParseLoop(pre, k, k + 1)))


\* The indices, in the calls of the latest line, of the calls made in its loop
InLoop == (hist.start + 1)..Len(parser.events)

\* C31: a vim_start emitted at an offset inside a line has a vim_end before it
\* in the same line and the bytes at the offset begin with VIM_START; an offset
\* kept in next_vim from an earlier line causes no vim_start.
C31_InlineVimStartAtHint ==
    \A i \in InLoop :
        parser.events[i].ev = "vim_start" =>
            /\ \E j \in 1..(i - 1) : parser.events[j].ev = "vim_end"
            /\ StartsWithAt(parser.line, parser.events[i].pos, VIM_START)


\* The turn of the loop for a '$' at offset k of line, up to the input of the
\* byte: the detector before the turn and after what the turn does first.
DollarTurn(line, k, check(_, _)) ==
    With(ParsedUpTo(parser, line, k), LAMBDA pre :
         check(pre, ParseBeforeInput(pre, 36)))

\* The fields VT500Parser.input changes
VtPart(p) == <<p.state, p.private_flag, p.intermediate_char, p.final_char,
               p.parameter_string, p.acts, p.calls>>

\* C32: a '$' that finds the detector in PROMPT_IMMINENT moves it to PROMPT and
\* fires prompt_active once, before the byte is input to the VT500 parser; a
\* later '$' of the line, the detector no more in PROMPT_IMMINENT, fires nothing.
C32_FirstDollarFiresOnce ==
    \A line \in Lines : \A k \in 0..(Len(line) - 1) :
        At(line, k) = 36 =>
            DollarTurn(line, k, LAMBDA pre, post :
                IF ~Ok(pre) THEN TRUE
                ELSE IF pre.tlp_state = "PROMPT_IMMINENT"
                THEN /\ post.tlp_state = "PROMPT"
                     /\ post.events =
                            Append(pre.events, [ev |-> "prompt_active", props |-> None,
                                                st |-> "PROMPT_IMMINENT", pos |-> k])
                     /\ VtPart(post) = VtPart(pre)
                ELSE (\E i \in DOMAIN pre.events : pre.events[i].ev = "prompt_active")
                         => post.events = pre.events)


\* The byte at offset j of line is the final byte of a CSI ? 1 l that the parser
\* dispatched.
CkmResetAt(line, j) ==
    With(ParsedUpTo(parser, line, j + 1), LAMBDA q :
         /\ q.final_char = <<108>> /\ q.parameter_string = <<49>>
         /\ q.private_flag = <<63>> /\ q.intermediate_char = <<>>
         /\ \E i \in DOMAIN q.acts : q.acts[i].act = "csi_dispatch")

\* The machine reported 'exit' in the turn that led from pre to post: it is the
\* one report that ends application mode.
ExitReported(pre, post) ==
    Ok(post) /\ pre.app_mode.app_mode_active /\ ~post.app_mode.app_mode_active

\* C33: the machine reports 'exit' at the '>' of an ESC > only when application
\* mode is active and the final byte of a CSI ? 1 l was dispatched two bytes
\* before it in the same line; a position kept from an earlier line does not
\* pass for it.
C33_ExitOnlyOnAdjacentReset ==
    \A line \in Lines : \A k \in 0..(Len(line) - 1) :
        At(line, k) = 62 =>
            With(ParsedUpTo(parser, line, k), LAMBDA pre :
                 ExitReported(pre, ParseLoop(pre, k, k + 1)) =>
                     (k >= 2 /\ CkmResetAt(line, k - 2)))


\* C37: an editor session whose start and end were found on one line, so that
\* the line left the detector in VIM_SESSION_ONELINE, has its vim_end by the
\* time parse has looked at the state at the start of the next line, whichever
\* line that is and whichever end pattern the session had.
C37_OnelineVimEndsByNextLine ==
    parser.tlp_state = "VIM_SESSION_ONELINE" =>
        \A line \in Lines :
            With(ParsedUpTo(parser, line, 0), LAMBDA q :
                 \E i \in DOMAIN q.events : q.events[i].ev = "vim_end")


(***************************************************************************)
(* SpecAsc: the frames of an asciinema recording fed to Asciinema2Html, as *)
(* the module-level parse of asciinema2html.py feeds them after the header.*)
(***************************************************************************)
MaxFrames == 3

\* Time between two frames, in microseconds.
Dts == {20000, 480000}

\* the end of an editor session at the very start of a frame
PayVimEnd == CSI_23_0_0_t

\* the end of an editor session after eight bytes of text
PayVimEndLate == <<120, 120, 120, 120, 120, 120, 120, 120>> \o CSI_23_0_0_t \o LF

\* a frame without a newline
PayPart == <<121>>

\* the start and the end of an editor session in one frame
PayVimBoth == CSI_22_0_0_t \o CSI_22_2_t_22_1_t \o CSI_23_0_0_t \o LF

\* a line of text and the start of an editor session in one frame
PayTwoLines == LineText \o LineVim1

Payloads ==
    { LineVim1, PayVimEnd, PayVimEndLate, LineText, PayPart, PayVimBoth, PayTwoLines }

InitAsc ==
    /\ builder = NoBuilder
    /\ twebber = NoTwebber
    /\ document = NoDocument
    /\ probe = NoProbe
    /\ parser = [NewTermLogParser EXCEPT !.tlp_event_listener = [kind |-> "reader"]]
    /\ reader = NewAsciinema2Html([height |-> 24])   \* the header line
    /\ hist = [ n        |-> 0,       \* frames fed
                now      |-> 0,       \* the timestamp of the latest frame
                payloads |-> <<>>,    \* the payload bytes of the frames, in order
                fed      |-> <<>>,    \* the bytes parser.parse was called with
                finished |-> FALSE ]  \* readline returned '' and finish() ran

\* reader.parse(line) for the frame [now + dt, "o", payload]
AscFrame ==
    \E payload \in Payloads, dt \in Dts :
        LET frame == [ts |-> hist.now + dt, payload |-> payload]
        IN  /\ hist.n < MaxFrames
            /\ reader.error = None
            /\ ~hist.finished
            /\ \E x \in {A2hParse(reader, [parser EXCEPT !.events = <<>>], frame)} :
                   /\ reader' = x.r
                   /\ parser' = x.p
                   /\ hist' = [hist EXCEPT !.n = @ + 1, !.now = frame.ts,
                                           !.payloads = @ \o payload,
                                           !.fed = @ \o x.fed]
            /\ UNCHANGED <<builder, probe, twebber, document>>

\* The end of the file: the loop of the module-level parse ends and html.finish()
\* writes the outro; neither the reader nor the parser is called again.
AscFinish ==
    /\ reader.error = None
    /\ ~hist.finished
    /\ hist' = [hist EXCEPT !.finished = TRUE]
    /\ UNCHANGED <<builder, probe, parser, reader, twebber, document>>

NextAsc == AscFrame \/ AscFinish

SpecAsc == InitAsc /\ [][NextAsc]_vars

\* C10: no frame whose payload holds a vim-end pattern (ESC [ 23;0;0 t or
\* ESC [ ? 1 l ESC >) is among the frames of the editor sub-recording.
C10_NoVimEndFrameRecorded ==
    \A i \in DOMAIN reader.vimrecording.frames :
        reader.vimrecording.frames[i].kind = "frame"
            => ~VimEndsInFrameLineWhole(reader.vimrecording.frames[i].payload)

\* C29: when the input is exhausted, the bytes the parser was fed are the payload
\* bytes of all frames, each once and in the order of the input, the bytes after
\* the last 0x0A of the recording among them.
C29_AllPayloadBytesFed == hist.finished => hist.fed = hist.payloads

\* vim_start found the buffer of pending frames empty: framebuffer[0] raised
\* IndexError right after capturing_vim was set (the IndexError of addall comes
\* after capturing_vim is cleared again).
VimStartOnEmptyBuffer(r) ==
    r.error = "IndexError" /\ r.capturing_vim /\ r.framebuffer = <<>>

\* C36: whenever vim_start is handled the buffer of pending frames holds a frame,
\* also when the payload of one frame has several line feeds and when vim_start
\* comes while an editor session is open.
C36_VimStartHasPendingFrame == ~VimStartOnEmptyBuffer(reader)


(***************************************************************************)
(* SpecRec: VimRecording.start and VimRecording.add called with frames     *)
(* whose timestamps never decrease, on the recording the reader owns.      *)
(***************************************************************************)
MaxRecCalls == 5

\* Timestamps of frames, in microseconds: 0.0, 0.000004, 0.01, 0.012346, 0.02,
\* 0.12, 0.5, 2.01 and 5.0 seconds.
Tss == {0, 4, 10000, 12346, 20000, 120000, 500000, 2010000, 5000000}

InitRec ==
    /\ builder = NoBuilder
    /\ twebber = NoTwebber
    /\ document = NoDocument
    /\ probe = NoProbe
    /\ parser = NewTermLogParser
    /\ reader = NewAsciinema2Html([height |-> 24])
    /\ hist = [ n      |-> 0,      \* calls made
                now    |-> 0,      \* the latest timestamp passed in
                start  |-> 0,      \* start_ts of the latest start
                inputs |-> <<>> ]  \* timestamps of the frames added since

\* vimrecording.start(start_ts, height)
RecStart ==
    \E start_ts \in Tss, height \in {-1, 30} :
        /\ hist.n < MaxRecCalls
        /\ start_ts >= hist.now
        /\ reader' = [reader EXCEPT !.vimrecording = VimRecordingStart(@, start_ts, height)]
        /\ hist' = [n |-> hist.n + 1, now |-> start_ts, start |-> start_ts,
                    inputs |-> <<>>]
        /\ UNCHANGED <<builder, probe, parser, twebber, document>>

\* vimrecording.add(frame), once started (frames is unset before)
RecAdd ==
    \E ts \in Tss :
        /\ hist.n < MaxRecCalls
        /\ reader.vimrecording.frames # <<>>
        /\ ts >= hist.now
        /\ reader' = [reader EXCEPT !.vimrecording =
                          VimRecordingAdd(@, [ts |-> ts, payload |-> <<120>>])]
        /\ hist' = [hist EXCEPT !.n = @ + 1, !.now = ts, !.inputs = Append(@, ts)]
        /\ UNCHANGED <<builder, probe, parser, twebber, document>>

NextRec == RecStart \/ RecAdd

SpecRec == InitRec /\ [][NextRec]_vars

\* The timestamps stored in the sub-recording, the synthetic first frame
\* included, the header left out.
StoredTs ==
    [i \in 1..(Len(reader.vimrecording.frames) - 1) |->
        reader.vimrecording.frames[i + 1].ts]

\* The differences between consecutive stored timestamps.
StoredDeltas == [i \in 1..(Len(StoredTs) - 1) |-> StoredTs[i + 1] - StoredTs[i]]

\* The timestamp passed in before the i-th added frame.
PrevInput(i) == IF i = 1 THEN hist.start ELSE hist.inputs[i - 1]

\* The largest threshold that does not exceed dt, or dt below the smallest.
LargestThreshold(dt) ==
    LET le == {QSteps[k] : k \in DOMAIN QSteps} \cap (0..dt)
    IN  IF le = {} THEN dt ELSE Max(le)

\* C11: every frame appended to a sub-recording is stored with the previous
\* stored timestamp plus q(dt), to the five decimals a timestamp is stored with,
\* where dt is the frame's timestamp minus the timestamp of the frame appended
\* before it and q(dt) is the largest threshold of 4.0, 2.0, 1.0, 0.5, 0.3, 0.18,
\* 0.1, 0.03 that does not exceed dt, or dt itself below 0.03.
C11_StoredTsQuantized ==
    \A i \in DOMAIN hist.inputs :
        StoredTs[i + 1] = Round5(StoredTs[i] + LargestThreshold(hist.inputs[i] - PrevInput(i)))

\* The last three differences between stored timestamps.
LastThreeDeltas == SubSeq(StoredDeltas, Len(StoredDeltas) - 2, Len(StoredDeltas))

\* The timestamps of scenario S4 fed to a sub-recording started at 0.0, the
\* first of them as the start alone or as a frame as well.
S4Fed ==
    /\ hist.start = 0
    /\ hist.inputs \in { <<0, 20000, 500000, 5000000>>, <<20000, 500000, 5000000>> }

\* C12 as stated: the input timestamps 0.0, 0.02, 0.50, 5.0 give the deltas
\* 0.02, 0.5, 4.0 between consecutive stored frames.
C12_S4DeltasAsStated == S4Fed => LastThreeDeltas = <<20000, 500000, 4000000>>

\* C12: the input timestamps 0.0, 0.02, 0.50, 5.0 give the deltas 0.02, 0.3, 4.0
\* between consecutive stored frames (0.48 lies below the threshold 0.5).
C12_S4Deltas == S4Fed => LastThreeDeltas = <<20000, 300000, 4000000>>

C12_Witness ==
    /\ S4Fed
    /\ StoredTs = <<0, 20000, 320000, 4320000>>

\* C13: with input timestamps that never decrease, the stored timestamps, the
\* synthetic first frame at 0.0 included, never decrease.
C13_StoredTsNonDecreasing ==
    \A i \in 1..(Len(StoredTs) - 1) : StoredTs[i] <= StoredTs[i + 1]

C13_Witness ==
    /\ Len(hist.inputs) = 4
    /\ hist.inputs[1] < hist.inputs[4]
    /\ StoredTs[1] = 0
    /\ StoredTs[5] >= 4000000
    /\ \E i \in 1..4 : StoredTs[i] = StoredTs[i + 1]


(***************************************************************************)
(* twebber.py: ANLog, Hops and parse.  Timestamps are counted in           *)
(* thousandths of a second; the ones fed below are multiples of a quarter  *)
(* of a second, which binary doubles add and compare exactly.  A recording *)
(* file is [version, timestamp, frames], frames being the timestamps of    *)
(* its frame lines; an ANLog's frame is <<>> for None and <<ts>> for a     *)
(* frame read.                                                             *)
(***************************************************************************)
\* float('Infinity'): a timestamp later than every other.
Infinity == 1000000000

\* ANLog.__init__
NewANLog(asciinfo, fh) ==
    [ fh            |-> fh,
      start_ts      |-> asciinfo.timestamp,
      curr_ts       |-> 0,
      last_frame_ts |-> 0,
      frame         |-> <<>>,
      error         |-> None ]

\* ANLog.start; json.loads raises JSONDecodeError on the empty line readline
\* returns at the end of the file.
ANLogStart(log, ref_ts) ==
    IF log.fh = <<>> THEN [log EXCEPT !.start_ts = ref_ts, !.error = "JSONDecodeError"]
    ELSE [log EXCEPT !.start_ts = ref_ts,
                     !.fh = Tail(@),
                     !.frame = <<Head(log.fh)>>,
                     !.curr_ts = ref_ts + Head(log.fh)]

\* ANLog.skip_to: the log after the loop; the value returned is its last_frame_ts.
RECURSIVE ANLogSkipTo(_, _)
ANLogSkipTo(log, stop_ts) ==
    IF ~(log.curr_ts < stop_ts) THEN log
    ELSE LET l1 == [log EXCEPT !.last_frame_ts = log.frame[1]]
         IN  IF l1.fh # <<>>
             THEN ANLogSkipTo([l1 EXCEPT !.fh = Tail(@),
                                         !.frame = <<Head(l1.fh)>>,
                                         !.curr_ts = l1.start_ts + Head(l1.fh)], stop_ts)
             ELSE ANLogSkipTo([l1 EXCEPT !.curr_ts = Infinity], stop_ts)

\* Hops.__init__
NewHops(start_at) ==
    [active |-> start_at, hops_from_left |-> <<>>, hops_from_right |-> <<>>]

\* Hops.hop with the hops from the right side dropped.
HopDropRight(hops, from_ts, to_ts) ==
    IF hops.active = "left"
    THEN [hops EXCEPT !.hops_from_left = Append(@, <<from_ts, to_ts>>), !.active = "right"]
    ELSE [hops EXCEPT !.active = "left"]

\* Hops.hop
Hop(hops, from_ts, to_ts) ==
    IF hops.active = "left"
    THEN [hops EXCEPT !.hops_from_left = Append(@, <<from_ts, to_ts>>), !.active = "right"]
    ELSE [hops EXCEPT !.hops_from_right = Append(@, <<from_ts, to_ts>>), !.active = "left"]

\* The other of the two logs.
Other(side) == IF side = "left" THEN "right" ELSE "left"

\* parse up to its loop: both headers read and checked, both logs started.
\* pc is "exited" after exit(), "raised" after an exception, "loop" otherwise.
TwebberOpen(leftfile, rightfile) ==
    LET left0  == NewANLog(leftfile, leftfile.frames)
        right0 == NewANLog(rightfile, rightfile.frames)
        diff   == right0.start_ts - left0.start_ts
        left   == ANLogStart(left0, IF diff >= 0 THEN 0 ELSE -diff)
        right  == ANLogStart(right0, IF diff >= 0 THEN diff ELSE 0)
        first  == IF diff >= 0 THEN "left" ELSE "right"
        base   == [ pc |-> "loop", leftfile |-> leftfile, rightfile |-> rightfile,
                    left |-> left0, right |-> right0, active |-> first,
                    hops |-> NewHops(first), from_ts |-> 0, error |-> None ]
    IN  IF leftfile.version # 2 THEN [base EXCEPT !.pc = "exited"]
        ELSE IF rightfile.version # 2 THEN [base EXCEPT !.pc = "exited"]
        ELSE IF diff >= 0 /\ left.error # None
             THEN [base EXCEPT !.pc = "raised", !.left = left, !.error = left.error]
        ELSE IF diff < 0 /\ right.error # None
             THEN [base EXCEPT !.pc = "raised", !.right = right, !.error = right.error]
        ELSE IF left.error # None \/ right.error # None
             THEN [base EXCEPT !.pc = "raised", !.left = left, !.right = right,
                               !.error = "JSONDecodeError"]
        ELSE [base EXCEPT !.left = left, !.right = right]

\* One pass through the body of parse's while True.
TwebberTurn(t) ==
    LET paused == Other(t.active)
        act    == ANLogSkipTo(t[t.active], t[paused].curr_ts)
        t1     == [t EXCEPT ![t.active] = act, !.from_ts = act.last_frame_ts]
    IN  IF act.curr_ts = Infinity /\ t[paused].curr_ts = Infinity
        THEN [t1 EXCEPT !.pc = "returned"]
        ELSE [t1 EXCEPT !.hops = Hop(@, act.last_frame_ts, t[paused].frame[1]),
                        !.active = paused]


(***************************************************************************)
(* SpecHop: twebber.parse on two recording files, one turn of its loop at  *)
(* a time.  SpecHopFair adds that a loop that can take a turn takes it.    *)
(***************************************************************************)
MaxLogFrames == 3

\* Turns whose hops are kept: more than any run that returns takes on these
\* recordings.
MaxTurns == 10

\* Wall-clock times of the starts of the recordings: 100 and 100.5 seconds.
Walls == {100000, 100500}

\* Timestamps of frames: 0, 0.5, 1 and 2 seconds.
FrameTss == {0, 500, 1000, 2000}

\* The frame lines of a recording: timestamps that never decrease.
FrameLists ==
    UNION { { f \in [1..n -> FrameTss] : \A i \in 1..(n - 1) : f[i] <= f[i + 1] }
            : n \in 0..MaxLogFrames }

Recordings ==
    [version : {2}, timestamp : Walls, frames : FrameLists]
        \cup { [version |-> 1, timestamp |-> 100000, frames |-> <<>>] }

InitHop ==
    /\ builder = NoBuilder
    /\ probe = NoProbe
    /\ parser = NewVT500Parser
    /\ reader = NoReader
    /\ document = NoDocument
    /\ \E leftfile \in Recordings, rightfile \in Recordings :
           twebber = [ pc |-> "entry", leftfile |-> leftfile, rightfile |-> rightfile ]
    /\ hist = [ turns |-> 0,    \* passes through the loop body
                swaps |-> 0 ]   \* times active and paused were swapped

\* parse(leftfile, rightfile), lines 57-94
HopOpen ==
    /\ twebber.pc = "entry"
    /\ twebber' = TwebberOpen(twebber.leftfile, twebber.rightfile)
    /\ UNCHANGED <<builder, probe, parser, reader, document, hist>>

\* lines 95-103, once.  The lists keep the hops of the first MaxTurns turns and
\* the counts stop there; the cursors and the roles go on.
HopTurn ==
    /\ twebber.pc = "loop"
    /\ \E t \in {TwebberTurn(twebber)} :
           IF hist.turns < MaxTurns
           THEN /\ twebber' = t
                /\ hist' = [ turns |-> hist.turns + 1,
                             swaps |-> hist.swaps + (IF t.pc = "loop" THEN 1 ELSE 0) ]
           ELSE /\ twebber' = [t EXCEPT !.hops = [twebber.hops EXCEPT !.active = t.hops.active]]
                /\ hist' = hist
    /\ UNCHANGED <<builder, probe, parser, reader, document>>

NextHop == HopOpen \/ HopTurn

SpecHop == InitHop /\ [][NextHop]_vars

SpecHopFair == SpecHop /\ WF_vars(NextHop)


\* Both recordings are version 2 and have at least one frame.
BothHaveFrames ==
    /\ twebber.leftfile.version = 2 /\ twebber.leftfile.frames # <<>>
    /\ twebber.rightfile.version = 2 /\ twebber.rightfile.frames # <<>>

\* C14: for two recordings with at least one frame each, the loop of the hop
\* aligner ends, with both cursors exhausted, equal wall-clock times of a frame
\* of one and a frame of the other included.
C14_Terminates ==
    BothHaveFrames =>
        <>(/\ twebber.pc = "returned"
           /\ twebber.left.curr_ts = Infinity
           /\ twebber.right.curr_ts = Infinity)

\* The recordings of scenario S6: L with frames at 0, 1, 2 started at wall-clock
\* 100, R with frames at 0, 0.5 started at 100.5.
S6Files ==
    /\ twebber.leftfile = [version |-> 2, timestamp |-> 100000, frames |-> <<0, 1000, 2000>>]
    /\ twebber.rightfile = [version |-> 2, timestamp |-> 100500, frames |-> <<0, 500>>]

\* C15: on the recordings of S6 the hop aligner returns, both cursors exhausted,
\* hops_from_left = [(0.5, 0.0)] and hops_from_right = [(1.0, 1.0)].
C15_S6Hops ==
    S6Files =>
        <>(/\ twebber.pc = "returned"
           /\ twebber.hops.hops_from_left = << <<500, 0>> >>
           /\ twebber.hops.hops_from_right = << <<1000, 1000>> >>)

\* from_ts and to_ts never decrease from one hop of the list to the next.
HopsNonDecreasing(hops) ==
    \A i \in 1..(Len(hops) - 1) :
        /\ hops[i][1] <= hops[i + 1][1]
        /\ hops[i][2] <= hops[i + 1][2]

\* C16: in the lists of the hop aligner, while it runs and when it returns,
\* from_ts and to_ts never decrease from a hop to the next within
\* hops_from_left and within hops_from_right, and the hops of both lists are as
\* many as the swaps of active and paused made.
C16_HopsOrderedAndCounted ==
    twebber.pc \in {"loop", "returned"} =>
        /\ HopsNonDecreasing(twebber.hops.hops_from_left)
        /\ HopsNonDecreasing(twebber.hops.hops_from_right)
        /\ Len(twebber.hops.hops_from_left) + Len(twebber.hops.hops_from_right) = hist.swaps

C16_Witness ==
    /\ twebber.pc = "returned"
    /\ hist.swaps = 4
    /\ Len(twebber.hops.hops_from_left) = 2
    /\ twebber.hops.hops_from_left[1][1] < twebber.hops.hops_from_left[2][1]
    /\ twebber.hops.hops_from_right[1][2] < twebber.hops.hops_from_right[2][2]


(***************************************************************************)
(* SpecSgr: control sequences handed to HtmlDocumentCreator.convert_csi,   *)
(* as VT2Html.print_term_line hands them over, between the starts of       *)
(* command blocks.                                                         *)
(***************************************************************************)
MaxSgr == 4

\* Parameter strings: "", "0", "00", "1", "4", "7", "31", "44", "22", "24", "27",
\* "39", "49", "38;5;10", "48;2;1;2;3", "99", "22;99", "38;5", "48;2;1;2".
SgrParams ==
    { <<>>, <<48>>, <<48, 48>>, <<49>>, <<52>>, <<55>>, <<51, 49>>, <<52, 52>>,
      S_22, S_24, S_27, S_39, S_49,
      <<51, 56, 59, 53, 59, 49, 48>>, <<52, 56, 59, 50, 59, 49, 59, 50, 59, 51>>,
      <<57, 57>>, <<50, 50, 59, 57, 57>>,
      <<51, 56, 59, 53>>, <<52, 56, 59, 50, 59, 49, 59, 50>> }

\* The final bytes "m" and "H".
SgrFinals == {109, 72}

\* The characters 'a' and '<' handed to write
SgrChars == {97, 60}

\* How many of the pieces in written are the tag
TagsWritten(written, tag) ==
    Cardinality({i \in DOMAIN written : written[i].tag = tag})

\* What the constructor writes of BODY_INTRO: the first cmd-row div with its pre,
\* written with the markup new_cmd_block uses.
BODY_INTRO == <<[tag |-> "pre"]>>

InitSgr ==
    /\ builder = NoBuilder
    /\ probe = NoProbe
    /\ parser = NewVT500Parser
    /\ reader = NoReader
    /\ twebber = NoTwebber
    /\ document = NewHtmlDocumentCreator({2})
    /\ hist = [ n      |-> 0,       \* calls made
                call   |-> None,    \* the method called last
                param  |-> <<>>,    \* its parameter string
                final  |-> 0,       \* its final byte
                before |-> NewHtmlDocumentCreator({2}),  \* the document before it
                opened |-> 0,       \* the <span ...> written to the file so far
                closed |-> 0,       \* the </span> written to the file so far
                blocks_opened |-> TagsWritten(BODY_INTRO, "pre"),  \* <div class="cmd-row"><pre> so far
                blocks_closed |-> 0,   \* </pre></div> so far
                prompts |-> 0 ]     \* calls of new_cmd_block, one for each prompt_start

\* A call that leaves the document doc
SgrStep(doc, call, param, final) ==
    /\ hist.n < MaxSgr
    /\ Ok(document)
    /\ document' = doc
    /\ hist' = [n |-> hist.n + 1, call |-> call, param |-> param,
                final |-> final, before |-> document,
                opened |-> hist.opened + TagsWritten(doc.written, "span"),
                closed |-> hist.closed + TagsWritten(doc.written, "/span"),
                blocks_opened |-> hist.blocks_opened + TagsWritten(doc.written, "pre"),
                blocks_closed |-> hist.blocks_closed + TagsWritten(doc.written, "/pre"),
                prompts |-> hist.prompts + (IF call = "new_cmd_block" THEN 1 ELSE 0)]
    /\ UNCHANGED <<builder, probe, parser, reader, twebber>>

\* document.convert_csi(private, param, interm, final)
SgrConvertCsi ==
    \E param \in SgrParams, final \in SgrFinals :
        /\ final # 109 => param = <<>>
        /\ SgrStep(ConvertCsi(document, param, final), "convert_csi", param, final)

\* document.new_cmd_block(count)
SgrNewCmdBlock ==
    SgrStep(NewCmdBlock(document), "new_cmd_block", <<>>, 0)

\* document.close_all_spans()
SgrCloseAllSpans ==
    SgrStep(CloseAllSpans([document EXCEPT !.written = <<>>]), "close_all_spans", <<>>, 0)

\* document.write(char)
SgrWrite ==
    \E char \in SgrChars :
        SgrStep(Write(document, char), "write", <<char>>, 0)

NextSgr == SgrConvertCsi \/ SgrNewCmdBlock \/ SgrCloseAllSpans \/ SgrWrite

SpecSgr == InitSgr /\ [][NextSgr]_vars


\* The call made last was convert_csi with the final byte "m".
SgrCalled == hist.call = "convert_csi" /\ hist.final = 109

\* The closing codes "22", "24", "27", "39", "49".
ClosingCodes == {S_22, S_24, S_27, S_39, S_49}

\* The spans bold, underline and f1 (foreground colour 31).
SpanA == [value |-> S_bold, attr |-> "class"]
SpanB == [value |-> S_underline, attr |-> "class"]
SpanC == [value |-> S_f \o <<49>>, attr |-> "class"]

\* C17: a closing code 22, 24, 27, 39 or 49 removes from the span stack exactly
\* the innermost span matching bold, underline, reverse, foreground colour or
\* background colour, and leaves every other span in its place in the order;
\* what it writes is a closing tag for that span and every span after it, then
\* the opening tags of those after it.  After open(a), open(b), open(c),
\* close(a) the stack is [b, c] and three closing tags and the opening tags of b
\* and c were written.
C17_ClosingCodeRemovesInnermost ==
    (SgrCalled /\ hist.param \in ClosingCodes) =>
        LET old == hist.before.html_span_stack
            new == document.html_span_stack
            m   == {i \in DOMAIN old : SpanMatches(ClosingRegex(hist.param), old[i].value)}
            idx == Max(m)
        IN  /\ m # {} =>
                /\ document.error = None
                /\ Len(new) = Len(old) - 1
                /\ \A i \in 1..(idx - 1) : new[i] = old[i]
                /\ \A i \in (idx + 1)..Len(old) : new[i - 1] = old[i]
                /\ document.written =
                       CloseTags(Len(old) - idx + 1)
                           \o [i \in 1..(Len(old) - idx) |-> OpenTag(old[idx + i])]
            /\ (old = <<SpanA, SpanB, SpanC>> /\ hist.param = S_22) =>
                /\ new = <<SpanB, SpanC>>
                /\ document.written =
                       <<CloseTag, CloseTag, CloseTag, OpenTag(SpanB), OpenTag(SpanC)>>

C17_Witness ==
    /\ SgrCalled
    /\ hist.param = S_22
    /\ hist.before.html_span_stack = <<SpanA, SpanB, SpanC>>
    /\ document.html_span_stack = <<SpanB, SpanC>>
    /\ Len(document.written) = 5

\* C18: an SGR sequence with the parameter string "", "0" or "00" writes one
\* closing tag for each span on the stack and leaves the stack empty.
C18_ResetClosesAll ==
    (SgrCalled /\ hist.param \in {<<>>, <<48>>, <<48, 48>>}) =>
        /\ document.error = None
        /\ document.html_span_stack = <<>>
        /\ Len(document.written) = Len(hist.before.html_span_stack)
        /\ \A i \in DOMAIN document.written : document.written[i] = [tag |-> "/span"]

C18_Witness ==
    /\ SgrCalled
    /\ hist.param = <<48, 48>>
    /\ Len(hist.before.html_span_stack) = 3
    /\ document.html_span_stack = <<>>
    /\ Len(document.written) = 3

\* The SGR codes convert_csi is said to support.
SupportedCodes ==
    {0, 1, 4, 5, 7, 22, 24, 27, 38, 39, 48, 49}
        \cup (30..37) \cup (40..47) \cup (90..97) \cup (100..107)

\* The codes of a parameter string: all of its parameters, or the leading 38
\* or 48 alone, whose other parameters name a colour.
CodesOf(param) ==
    LET params == Split(param)
    IN  IF params[1] \in {S_38, S_48} THEN {DigitsToInt(params[1])}
        ELSE {DigitsToInt(params[i]) : i \in DOMAIN params}

\* C20: an SGR sequence with a code outside the supported set fails with
\* NotImplementedError, and the span stack is then as it was before the sequence.
C20_UnsupportedFailsStackKept ==
    (SgrCalled /\ ~hist.before.output_suppressed /\ ~(CodesOf(hist.param) \subseteq SupportedCodes)) =>
        /\ document.error = "NotImplementedError"
        /\ document.html_span_stack = hist.before.html_span_stack



\* C21: an SGR sequence whose first parameter is 38 or 48 and whose count of
\* parameters is not 3, 5 or 6 is skipped without an error: nothing is written
\* and the span stack is as before.
C21_ColourWrongCountSkipped ==
    (/\ SgrCalled
     /\ Split(hist.param)[1] \in {S_38, S_48}
     /\ Len(Split(hist.param)) \notin {3, 5, 6}) =>
        /\ document.error = None
        /\ document.written = <<>>
        /\ document.html_span_stack = hist.before.html_span_stack

C21_Witness ==
    /\ SgrCalled
    /\ hist.param = <<52, 56, 59, 50, 59, 49, 59, 50>>
    /\ Len(hist.before.html_span_stack) = 2
    /\ ~hist.before.output_suppressed
    /\ document.html_span_stack = hist.before.html_span_stack
    /\ document.written = <<>>



\* C22: while the command index is in the suppress set, nothing is written for
\* that block: a call made while output is suppressed writes no text, no span
\* tag and no block tag, save the markup that opens the block after it.
C22_SuppressedWritesNothing ==
    hist.before.output_suppressed =>
        \A i \in DOMAIN document.written : document.written[i] = [tag |-> "pre"]


\* C39: after any calls of convert_csi, close_all_spans, new_cmd_block and write
\* of which none has raised, with the output suppressed or not, the <span ...>
\* written less the </span> written are as many as the spans on the stack (the
\* markup new_cmd_block writes around a block opens and closes one span).
C39_OpenSpansAreStack ==
    Ok(document) => hist.opened - hist.closed = Len(document.html_span_stack)

\* C39 witness: bold and underline are open and 22 arrives: two spans are
\* closed, underline is opened again and is the one span on the stack.
C39_Witness ==
    /\ hist.call = "convert_csi" /\ hist.param = S_22
    /\ hist.before.html_span_stack = <<SpanA, SpanB>>
    /\ document.html_span_stack = <<SpanB>>
    /\ hist.opened = 3 /\ hist.closed = 2

\* The blocks among the first cmd_count the filter suppresses
SuppressedBlocks(doc) == Cardinality(doc.filter \cap (1..doc.cmd_count))

\* C40: after every new_cmd_block exactly one command block is open in what was
\* written since the document was made: the openings of a cmd-row div with its
\* pre are one more than the closings, and the closings never exceed the
\* openings; cmd_count is the number of prompt_start events, and cmd_number is
\* cmd_count less the suppressed blocks.
C40_OneBlockOpen ==
    (hist.call = "new_cmd_block" /\ Ok(document)) =>
        /\ hist.blocks_opened - hist.blocks_closed = 1
        /\ hist.blocks_closed <= hist.blocks_opened
        /\ document.cmd_count = hist.prompts
        /\ document.cmd_number = document.cmd_count - SuppressedBlocks(document)


(***************************************************************************)
(* SpecSgrBalanced: the SGR codes 1, 4, 31, 22, 24, 39 and 0, one control  *)
(* sequence each, handed to convert_csi of a new document.                 *)
(***************************************************************************)
MaxBalanced == 5

\* Parameter strings: "1", "4", "31", "22", "24", "39", "0".
BalancedParams == { <<49>>, <<52>>, <<51, 49>>, S_22, S_24, S_39, <<48>> }

InitSgrBalanced ==
    /\ builder = NoBuilder
    /\ probe = NoProbe
    /\ parser = NewVT500Parser
    /\ reader = NoReader
    /\ twebber = NoTwebber
    /\ document = NewHtmlDocumentCreator({})
    /\ hist = [ n     |-> 0,       \* calls made
                codes |-> <<>> ]   \* the codes handed over, in order

\* document.convert_csi('', param, '', 'm')
SgrBalancedCsi ==
    \E param \in BalancedParams :
        /\ hist.n < MaxBalanced
        /\ Ok(document)
        /\ document' = ConvertCsi(document, param, 109)
        /\ hist' = [n |-> hist.n + 1, codes |-> Append(hist.codes, DigitsToInt(param))]
        /\ UNCHANGED <<builder, probe, parser, reader, twebber>>

NextSgrBalanced == SgrBalancedCsi

SpecSgrBalanced == InitSgrBalanced /\ [][NextSgrBalanced]_vars

\* The closing code of an opening code.
CloserOf(code) == CASE code = 1 -> 22 [] code = 4 -> 24 [] code = 31 -> 39

\* How many of the opening code are open after codes: opened by the code,
\* closed one at a time by its closing code and all at once by 0; -1 once a
\* closing code came with none open.
RECURSIVE OpenAfter(_, _)
OpenAfter(codes, code) ==
    IF codes = <<>> THEN 0
    ELSE LET before == OpenAfter(Front(codes), code)
             c      == Last(codes)
         IN  IF before < 0 THEN -1
             ELSE IF c = code THEN before + 1
             ELSE IF c = CloserOf(code) THEN before - 1
             ELSE IF c = 0 THEN 0
             ELSE before

\* Every opening code is matched by a closing code of its own or by a reset
\* after it, and every closing code closes an opening code.
Balanced(codes) == \A code \in {1, 4, 31} : OpenAfter(codes, code) = 0

\* C19: after a balanced sequence of the SGR codes 1, 4, 31, 22, 24, 39 and 0
\* applied to an empty span stack, the span stack is empty.
C19_BalancedLeavesEmpty ==
    Balanced(hist.codes) =>
        /\ document.error = None
        /\ document.html_span_stack = <<>>

C19_Witness ==
    /\ hist.codes = <<1, 31, 4, 22, 0>>
    /\ document.html_span_stack = <<>>
    /\ document.written = <<CloseTag, CloseTag>>


(***************************************************************************)
(* SpecLine: a LineBuilder after reset() and set_prefix_len(k), driven the *)
(* way VT2Html drives its two builders: command_line drops the SGR         *)
(* sequences (ignore_SGR true), term_line keeps them.  A call that raised  *)
(* ends the run.  ref is a second builder that is handed the same calls    *)
(* with the SGR sequences dropped: a row that holds characters only.       *)
(***************************************************************************)
MaxOps == 4

MaxPrefix == 2

PrintCodes == {97, 98}

CtrlCodes == {8, 9, 10, 13}

\* '@', 'C', 'D', 'K', 'P', 'X', 'm' and the unused 'H'
CsiFinals == {<<64>>, <<67>>, <<68>>, <<75>>, <<80>>, <<88>>, <<109>>, <<72>>}

\* "", "0", "2" and "1;2"
CsiParams == {<<>>, <<48>>, <<50>>, <<49, 59, 50>>}

\* "ab" and "b"
CrPrintBytes == {<<97, 98>>, <<98>>}

InitLine ==
    /\ probe = NoProbe
    /\ parser = NewVT500Parser
    /\ reader = NoReader
    /\ twebber = NoTwebber
    /\ document = NoDocument
    /\ \E k \in 0..MaxPrefix, ignore_SGR \in BOOLEAN :
           /\ builder = LbSetPrefixLen(LbReset(NewLineBuilder), k)
           /\ hist = [ n          |-> 0,           \* calls made
                       ignore_SGR |-> ignore_SGR,  \* how csi is called
                       call       |-> None,        \* the last call
                       arg        |-> <<>>,        \* and its argument
                       before     |-> builder,     \* the builder before it
                       ref        |-> builder ]    \* the row of characters

LineStep(b, ref, call, arg) ==
    /\ hist.n < MaxOps
    /\ builder.error = None
    /\ builder' = b
    /\ hist' = [hist EXCEPT !.n = @ + 1, !.call = call, !.arg = arg,
                            !.before = builder, !.ref = ref]
    /\ UNCHANGED <<probe, parser, reader, twebber, document>>

\* builder.print(code)
LinePrint ==
    \E code \in PrintCodes :
        LineStep(LbPrint(builder, code), LbPrint(hist.ref, code), "print", <<code>>)

\* builder.ctrl(code)
LineCtrl ==
    \E code \in CtrlCodes :
        LineStep(LbCtrl(builder, code), LbCtrl(hist.ref, code), "ctrl", <<code>>)

\* builder.csi('', param, '', final, ignore_SGR)
LineCsi ==
    \E param \in CsiParams, final \in CsiFinals :
        LineStep(LbCsi(builder, <<>>, param, <<>>, final, hist.ignore_SGR),
                 LbCsi(hist.ref, <<>>, param, <<>>, final, TRUE),
                 "csi", param \o final)

\* ctrl(0x0D) and then print(code) for every code of bytes
RECURSIVE LbPrintAll(_, _)
LbPrintAll(b, bytes) ==
    IF bytes = <<>> THEN b ELSE LbPrintAll(LbPrint(b, Head(bytes)), Tail(bytes))

CrPrint(b, bytes) == LbPrintAll(LbCtrl(b, 13), bytes)

LineCrPrint ==
    \E bytes \in CrPrintBytes :
        LineStep(CrPrint(builder, bytes), CrPrint(hist.ref, bytes), "cr_print", bytes)

NextLine == LinePrint \/ LineCtrl \/ LineCsi \/ LineCrPrint

SpecLine == InitLine /\ [][NextLine]_vars


\* The last call was an LF, or a CSI @ that inserts at least one blank.
LineFeedCalled == hist.call = "ctrl" /\ hist.arg = <<10>>

InsertBlankCalled ==
    /\ hist.call = "csi"
    /\ Last(hist.arg) = 64
    /\ Times(Front(hist.arg)).ok
    /\ Times(Front(hist.arg)).n > 0

PrefixViolation(b) ==
    /\ b.error = "IndexError: in line prefix"
    /\ b.line = hist.before.line
    /\ b.pos = hist.before.pos

\* C24: after any sequence of print, ctrl and csi calls that follows reset() and
\* set_prefix_len(k), the cursor index pos is never below prefix_start = -k.
C24_CursorNotBelowPrefix == builder.pos >= builder.prefix_start

\* C25 as stated: an LF or an insert-blank called with the cursor anywhere in the
\* prefix region, prefix_start <= pos < 0, raises the prefix violation and leaves
\* line and pos as they were.
C25_PrefixViolationAsStated ==
    (/\ LineFeedCalled \/ InsertBlankCalled
     /\ hist.before.prefix_start <= hist.before.pos
     /\ hist.before.pos < 0) => PrefixViolation(builder)

\* C25: an LF called with prefix_start < pos < 0, and an insert-blank called with
\* pos < 0, raises the prefix violation and leaves line and pos as they were; an
\* LF called with the cursor on prefix_start itself is appended to the line.
C25_PrefixViolation ==
    /\ (\/ LineFeedCalled /\ hist.before.prefix_start < hist.before.pos
                          /\ hist.before.pos < 0
        \/ InsertBlankCalled /\ hist.before.pos < 0) => PrefixViolation(builder)
    /\ (LineFeedCalled /\ hist.before.pos = hist.before.prefix_start) =>
           /\ builder.error = None
           /\ builder.line = Append(hist.before.line, Chr(10))
           /\ builder.pos = hist.before.pos + 1

C25_Witness ==
    /\ LineFeedCalled
    /\ hist.before.prefix_start = -2
    /\ hist.before.pos = -1
    /\ hist.before.line # <<>>
    /\ builder.error = "IndexError: in line prefix"

\* C26: on any builder, CR followed by N prints, done a second time with the same
\* N bytes, leaves the line and the cursor that the first time left.
C26_CrPrintIdempotent ==
    hist.call = "cr_print" =>
        /\ CrPrint(builder, hist.arg).line = builder.line
        /\ CrPrint(builder, hist.arg).pos = builder.pos

C26_Witness ==
    /\ hist.call = "cr_print"
    /\ hist.arg = <<97, 98>>
    /\ builder.prefix_start = -1
    /\ builder.line # hist.before.line
    /\ \E i \in DOMAIN hist.before.line : IsTuple(hist.before.line[i])
    /\ builder.pos = 1

\* C27: with the SGR sequences kept, printable_size() is the number of columns of
\* the row of characters that was handed the same calls.
C27_PrintableSizeIsColumns ==
    (/\ ~hist.ignore_SGR
     /\ builder.error = None
     /\ hist.ref.error = None) => PrintableSize(builder) = LbSize(hist.ref)


\* The last call was a CSI D with a count, made with the cursor between
\* prefix_start and the end of the line.
CursorBackCalled ==
    /\ hist.call = "csi"
    /\ Last(hist.arg) = 68
    /\ Times(Front(hist.arg)).ok
    /\ hist.before.prefix_start <= hist.before.pos
    /\ hist.before.pos <= Len(hist.before.line)

\* The printable positions among the positions lo..hi-1 of b: those of the
\* prefix and the elements of the line that are no CSI tuples.
PrintablePositions(b, lo, hi) ==
    Cardinality({i \in lo..(hi - 1) : i < 0 \/ ~IsTuple(b.line[i + 1])})

\* C38: CSI D with the count n, the cursor anywhere from prefix_start to the end
\* of the line, raises nothing, leaves the line as it is and moves the cursor
\* back over n printable positions, or to prefix_start when fewer are before it.
C38_CursorBack ==
    CursorBackCalled =>
        LET n   == Times(Front(hist.arg)).n
            was == hist.before
        IN  /\ builder.error = None
            /\ builder.line = was.line
            /\ builder.prefix_start <= builder.pos /\ builder.pos <= was.pos
            /\ IF PrintablePositions(was, was.prefix_start, was.pos) >= n
               THEN PrintablePositions(was, builder.pos, was.pos) = n
               ELSE builder.pos = was.prefix_start


(***************************************************************************)
(* SpecHtml: the module-level parse of terminal2html.py: a TermLogParser   *)
(* whose handlers and listener are one VT2Html object, fed the lines that  *)
(* readline returns, and html.finish() at the end of the file.  A line     *)
(* without a 0x0A is the last line of its file.  The document is the one   *)
(* the VT2Html object holds.                                               *)
(***************************************************************************)
MaxHtmlLines == 3

\* ESC ] 0 ; user@host:/tmp BEL
OscUserHostTmp == <<27, 93, 48, 59, 117, 115, 101, 114, 64, 104, 111, 115, 116, 58, 47, 116, 109, 112, 7>>

\* "user@host MINGW64 /tmp $ ls" CR LF
LineUserHostLs == <<117, 115, 101, 114, 64, 104, 111, 115, 116, 32, 77, 73, 78, 71, 87, 54, 52, 32, 47, 116, 109, 112, 32, 36, 32, 108, 115, 13, 10>>

\* "a<" LF, "&" LF, LF, and "b" at the end of a file
TextLines == {<<97, 60, 10>>, <<38, 10>>, <<10>>, <<98>>}

HtmlLines ==
    TextLines \cup
    { OscUserHostTmp \o LineUserHostLs, OscUserHostTmp \o LF, LineUserHostLs,
      LineHeader, LineDollar, LineVim1 }

InitHtml ==
    /\ builder = NoBuilder
    /\ probe = NoProbe
    /\ reader = NoReader
    /\ twebber = NoTwebber
    /\ document = NoDocument
    /\ parser = [NewTermLogParser EXCEPT
                   !.tlp_event_listener = NewVT2Html(NewHtmlDocumentCreator({}))]
    /\ hist = [ n        |-> 0,       \* lines read
                input    |-> <<>>,    \* the bytes of the lines read
                trace    |-> <<>>,    \* the listener calls so far
                finished |-> FALSE ]  \* readline returned b'' and finish() ran

\* parser.parse(line)
HtmlParse ==
    \E line \in HtmlLines :
        /\ hist.n < MaxHtmlLines
        /\ ~hist.finished
        /\ Ok(parser)
        /\ IF hist.input = <<>> THEN TRUE ELSE Last(hist.input) = 10
        /\ parser' = Parse([parser EXCEPT !.events = <<>>], line)
        /\ hist' = [hist EXCEPT !.n = @ + 1, !.input = @ \o line,
                                !.trace = @ \o parser'.events]
        /\ UNCHANGED <<builder, probe, reader, twebber, document>>

\* The end of the file: html.finish() writes the outro and closes the file; the
\* VT2Html object is not called.
HtmlFinish ==
    /\ ~hist.finished
    /\ Ok(parser)
    /\ hist' = [hist EXCEPT !.finished = TRUE]
    /\ UNCHANGED <<builder, probe, parser, reader, twebber, document>>

NextHtml == HtmlParse \/ HtmlFinish

SpecHtml == InitHtml /\ [][NextHtml]_vars


\* The VT2Html object and its document
Html == parser.tlp_event_listener

\* The characters among what the document wrote: the tags are dropped.
RECURSIVE StripTags(_)
StripTags(body) ==
    IF body = <<>> THEN <<>>
    ELSE (IF Head(body).tag = "text" THEN Head(body).value ELSE <<>>)
             \o StripTags(Tail(body))

\* html.unescape on the entities of HTML_MAP
RECURSIVE Unescape(_)
Unescape(s) ==
    IF s = <<>> THEN <<>>
    ELSE IF \E c \in {34, 38, 60, 62} : StartsWithAt(s, 0, HTML_MAP(c)) /\ Len(HTML_MAP(c)) > 1
    THEN With(CHOOSE c \in {34, 38, 60, 62} : StartsWithAt(s, 0, HTML_MAP(c)), LAMBDA c :
              <<c>> \o Unescape(Slice(s, Len(HTML_MAP(c)))))
    ELSE <<Head(s)>> \o Unescape(Tail(s))

\* Printable characters and line feeds only
IsText(s) == \A i \in DOMAIN s : s[i] = 10 \/ (32 <= s[i] /\ s[i] <= 126)

\* C23: when the input holds printable characters and line feeds only, the text
\* written into the body, its tags stripped and its entities decoded, is the
\* input, the characters after the last line feed included.
C23_TextRoundTrip ==
    (hist.finished /\ IsText(hist.input)) =>
        Unescape(StripTags(Html.body)) = hist.input

\* The input of C28: the window title, the prompt line, the end of the file.
C28Fed ==
    /\ hist.finished
    /\ hist.input = OscUserHostTmp \o LineUserHostLs

\* C28: the window title ESC ] 0 ; user@host:/tmp BEL, the line
\* "user@host MINGW64 /tmp $ ls" CR LF and the end of the input make the detector
\* emit prompt_start, prompt_active and prompt_end, in this order and nothing
\* else, and leave the command block count of the renderer at 1.
C28_PromptEventsAndOneBlock ==
    C28Fed =>
        /\ [i \in DOMAIN hist.trace |-> hist.trace[i].ev] =
               <<"prompt_start", "prompt_active", "prompt_end">>
        /\ Html.document.cmd_count = 1

=============================================================================
